---- MODULE Spec2Model ----
(***************************************************************************)
(* Enrollment workflow and trader certification window of the btrade       *)
(* backend (src/src/enrollment/route.ts, src/src/enrollment/model.ts).     *)
(*                                                                         *)
(* Instants are minutes since 1970-01-01T00:00Z.  A dayjs instance is an   *)
(* instant together with the UTC offset (in minutes) of the zone whose     *)
(* calendar it computes in: TzOffset for  .tz("Asia/Bangkok")  instances,  *)
(* ServerOffset for plain  dayjs(date)  instances.                         *)
(***************************************************************************)
EXTENDS Integers, Sequences, FiniteSets, TLC

----------------------------------------------------------------------------
(* Calendar arithmetic, as dayjs computes it.                              *)

MinutesPerDay == 24 * 60

\* Offset of Asia/Bangkok (no daylight saving): +07:00.
TzOffset == 7 * 60

\* Offset of the zone the node process runs in: the image sets no TZ.
ServerOffset == 0

Min(a, b) == IF a <= b THEN a ELSE b

IsLeap(y) == (y % 4 = 0 /\ y % 100 # 0) \/ y % 400 = 0

DaysInMonth(y, m) ==
  IF m = 2 THEN (IF IsLeap(y) THEN 28 + 1 ELSE 28)
  ELSE IF m \in {4, 6, 9, 11} THEN 30 ELSE 31

\* Days since 1970-01-01 of the civil date y-m-d (proleptic Gregorian).
DaysFromCivil(y, m, d) ==
  LET yy  == IF m <= 2 THEN y - 1 ELSE y
      era == yy \div 400
      yoe == yy - era * 400
      mp  == IF m > 2 THEN m - 3 ELSE m + 9
      doy == (153 * mp + 2) \div 5 + d - 1
      doe == yoe * 365 + yoe \div 4 - yoe \div 100 + doy
  IN  era * 146097 + doe - 719468

\* The civil date <<y, m, d>> of a day number.
CivilFromDays(z) ==
  LET zz  == z + 719468
      era == zz \div 146097
      doe == zz - era * 146097
      yoe == (doe - doe \div 1460 + doe \div 36524 - doe \div 146096) \div 365
      doy == doe - (365 * yoe + yoe \div 4 - yoe \div 100)
      mp  == (5 * doy + 2) \div 153
      d   == doy - (153 * mp + 2) \div 5 + 1
      m   == IF mp < 10 THEN mp + 3 ELSE mp - 9
      y   == yoe + era * 400 + (IF m <= 2 THEN 1 ELSE 0)
  IN  <<y, m, d>>

\* The instant of wall-clock time y-m-d hh:mi in the zone of offset off.
At(y, m, d, hh, mi, off) ==
  DaysFromCivil(y, m, d) * MinutesPerDay + hh * 60 + mi - off

\* Calendar day number of instant t in the zone of offset off.
DayOf(t, off) == (t + off) \div MinutesPerDay

\* dayjs(t).add(n, "year") in the zone of offset off: the year field is
\* raised by n and the day of month is clamped to the length of the month.
AddYears(t, n, off) ==
  LET local == t + off
      ymd   == CivilFromDays(local \div MinutesPerDay)
      tod   == local % MinutesPerDay
      y2    == ymd[1] + n
      d2    == Min(ymd[3], DaysInMonth(y2, ymd[2]))
  IN  DaysFromCivil(y2, ymd[2], d2) * MinutesPerDay + tod - off

\* dayjs(t).add(n, "hour")
AddHours(t, n) == t + n * 60

----------------------------------------------------------------------------
(* Bounds of the model.                                                    *)

\* Largest maxSeats a course is created with.
MaxSeats == 2

----------------------------------------------------------------------------
(* Identifiers and request inputs.                                         *)

\* User ids and course ids that requests name.
Users == {"u1", "u2"}
Courses == {"c1", "c2"}

\* A body field that was not sent.
Missing == ""

\* Request bodies: every combination of sent fields, and those with one field
\* missing or invalid.
RegisterRequests ==
  (Users \X Courses) \cup {<<Missing, "c1">>, <<"u1", Missing>>}

ActionRequests ==
  (Users \X Courses \X {"approve", "reject"})
    \cup {<<Missing, "c1", "approve">>, <<"u1", Missing, "reject">>,
          <<"u1", "c1", "cancel">>}

CourseIdInputs == Courses \cup {Missing}

\* The traders and the courses in the store: two traders and one course, or
\* one trader and two courses (the other id then names no record).
Populations == { <<{"u1", "u2"}, {"c1"}>>, <<{"u1"}, {"c1", "c2"}>> }

Admins == {"a1"}

\* Requests in progress at the same time: the claims speak of two.
Slots == {"r1", "r2"}

\* Values Math.floor(100000 + Math.random() * 900000).toString() can give.
Codes == {"100000", "999999"}

CodeInputs == Codes \cup {"123456", Missing}

\* An unset optional field, and a set one.
Unset == << >>
Some(v) == <<v>>

\* Schedules of the courses in the store.
CourseDay == At(2024, 3, 10, 9, 0, TzOffset)
OtherDay == At(2024, 3, 12, 9, 0, TzOffset)
CourseDateChoices == {CourseDay, OtherDay}
CourseHourChoices == {3}

\* The instants at which requests arrive, in increasing order.
Moments ==
  << At(2024, 2, 29, 2, 0, TzOffset),    \* before the courses; Feb 28 in UTC
     At(2024, 3, 10, 11, 0, TzOffset),   \* during the course of CourseDay
     At(2026, 3, 1, 12, 0, TzOffset) >>  \* more than two years later

Instants == {Moments[i] : i \in 1..Len(Moments)}

----------------------------------------------------------------------------
(* State.                                                                  *)

VARIABLES
  clock,        \* the current instant (dayjs())
  traders,      \* Trader collection, by userId
  courses,      \* Course collection, by _id
  enrollments,  \* Enrollment collection, in insertion order
  resp,         \* response of the request handled by the last step
  inflight,     \* requests in progress (interleaved model only)
  users         \* User collection, by email

vars == <<clock, traders, courses, enrollments, resp, inflight, users>>

store == <<traders, courses, enrollments>>

\* No request was handled by the last step.
NoResponse ==
  [op |-> "none", userId |-> Missing, courseId |-> Missing, arg |-> Missing,
   status |-> 0, code |-> Missing]

Response(op, userId, courseId, arg, status, code) ==
  [op |-> op, userId |-> userId, courseId |-> courseId, arg |-> arg,
   status |-> status, code |-> code]

\* new Trader({... durationDisplay: {0,0,0}, trainings: []}) without a window.
NewTrader(deleted) ==
  [isDeleted |-> deleted, startDate |-> Unset, endDate |-> Unset,
   durationDisplay |-> <<0, 0, 0>>, trainings |-> << >>]

\* courseData: availableSeats starts at maxSeats, no code, no members.
NewCourse(deleted, courseDate, hours, maxSeats) ==
  [isDeleted |-> deleted, courseDate |-> courseDate, hours |-> hours,
   maxSeats |-> maxSeats, availableSeats |-> maxSeats,
   generatedCode |-> Unset, generatedCodeTimestamp |-> Unset,
   registeredUsers |-> << >>, waitingForApproveList |-> << >>]

\* new Enrollment({userId, courseId, enrollDate, status: "pending"})
NewEnrollment(userId, courseId) ==
  [userId |-> userId, courseId |-> courseId, status |-> "pending",
   validationCode |-> Unset, validatedAt |-> Unset,
   verifiedBy |-> Unset, verifiedAt |-> Unset]

Idle == [pc |-> "idle"]

\* bcrypt.hash(password, 10), up to the salt: the stored value is not the
\* password, and bcrypt.compare accepts exactly the password it was made from.
Hash(password) == <<"bcrypt", password>>

\* new User({email, password: hashedPassword, role}): status defaults to
\* Active and lastLogin to null.
NewUser(password, role) ==
  [password |-> Hash(password), role |-> role, status |-> "Active",
   lastLogin |-> Unset]

\* The email and the password each trader registered with.
EmailOf == [u \in Users |-> IF u = "u1" THEN "u1@example.com"
                            ELSE "u2@example.com"]
PasswordOf == [u \in Users |-> IF u = "u1" THEN "securePassword123"
                               ELSE "pw2"]

\* /register saves one User with every Trader.
TraderAccounts ==
  [m \in {EmailOf[u] : u \in DOMAIN traders} |->
     NewUser(PasswordOf[CHOOSE u \in DOMAIN traders : EmailOf[u] = m], "user")]

\* Traders as /register creates them and courses as the course route creates
\* them; a trader or a course may have been soft-deleted since.
Init ==
  /\ clock = Moments[1]
  /\ \E pop \in Populations, dt \in BOOLEAN, dc \in BOOLEAN,
        cd \in CourseDateChoices, h \in CourseHourChoices,
        ms \in 1..MaxSeats :
       /\ traders = [u \in pop[1] |-> NewTrader(u = "u1" /\ dt)]
       /\ courses = [c \in pop[2] |->
            NewCourse(c = "c2" /\ dc, IF c = "c1" THEN CourseDay ELSE cd, h, ms)]
  /\ enrollments = << >>
  /\ resp = NoResponse
  /\ inflight = [i \in Slots |-> Idle]
  /\ users = TraderAccounts

----------------------------------------------------------------------------
(* Store queries.                                                          *)

\* Indices of the Enrollment documents of the pair (userId, courseId).
EnrollmentsOf(userId, courseId) ==
  {i \in 1..Len(enrollments) :
     enrollments[i].userId = userId /\ enrollments[i].courseId = courseId}

\* Enrollment.findOne({userId, courseId}): index of the first match, 0 if none.
FindEnrollment(userId, courseId) ==
  IF EnrollmentsOf(userId, courseId) = {} THEN 0
  ELSE CHOOSE i \in EnrollmentsOf(userId, courseId) :
         \A j \in EnrollmentsOf(userId, courseId) : i <= j

\* trainings.findIndex(t => t.courseId === courseId): 0 stands for -1.
FindTraining(trainings, courseId) ==
  IF \E i \in 1..Len(trainings) : trainings[i].courseId = courseId
  THEN CHOOSE i \in 1..Len(trainings) :
         /\ trainings[i].courseId = courseId
         /\ \A j \in 1..(i - 1) : trainings[j].courseId # courseId
  ELSE 0

\* list.findIndex(item => item.userId === userId): 0 stands for -1.
FindUser(list, userId) ==
  IF \E i \in 1..Len(list) : list[i] = userId
  THEN CHOOSE i \in 1..Len(list) :
         list[i] = userId /\ \A j \in 1..(i - 1) : list[j] # userId
  ELSE 0

\* A splice that removes nothing.
RemoveAt_Nothing(s, i) == s

\* array.splice(i, 1)
RemoveAt(s, i) == [k \in 1..(Len(s) - 1) |-> IF k < i THEN s[k] ELSE s[k + 1]]

----------------------------------------------------------------------------
(* POST /registerCourse                                                    *)

\* trader.trainings.some(t => t.courseId === courseId ||
\*                            dayjs(t.date).isSame(courseDate, "day"))
AlreadyRegistered(trainings, courseId, courseDate) ==
  \E i \in 1..Len(trainings) :
    \/ trainings[i].courseId = courseId
    \/ DayOf(trainings[i].date, ServerOffset) = DayOf(courseDate, ServerOffset)

\* courseDate.isBefore(now, "day"), both in Asia/Bangkok.
CourseDayIsPast(courseDate, now) ==
  DayOf(courseDate, TzOffset) < DayOf(now, TzOffset)

\* RegisterOutcome without the check of availableSeats.
RegisterOutcome_NoSeatCheck(userId, courseId) ==
  IF userId = Missing \/ courseId = Missing THEN <<400, "Error-02-0001">>
  ELSE IF userId \notin DOMAIN traders THEN <<404, "Error-02-0002">>
  ELSE IF traders[userId].isDeleted THEN <<400, "Error-02-0003">>
  ELSE IF courseId \notin DOMAIN courses THEN <<404, "Error-02-0004">>
  ELSE IF courses[courseId].isDeleted THEN <<400, "Error-02-0005">>
  ELSE IF CourseDayIsPast(courses[courseId].courseDate, clock)
       THEN <<400, "Error-02-0006">>
  ELSE IF FindEnrollment(userId, courseId) # 0 THEN <<400, "Error-02-0011">>
  ELSE IF AlreadyRegistered(traders[userId].trainings, courseId,
                            courses[courseId].courseDate)
       THEN <<400, "Error-02-0008">>
  ELSE <<200, "Success-02-0001">>

\* The early returns of the handler, in order; <<200, ...>> when none is taken.
RegisterOutcome(userId, courseId) ==
  IF userId = Missing \/ courseId = Missing THEN <<400, "Error-02-0001">>
  ELSE IF userId \notin DOMAIN traders THEN <<404, "Error-02-0002">>
  ELSE IF traders[userId].isDeleted THEN <<400, "Error-02-0003">>
  ELSE IF courseId \notin DOMAIN courses THEN <<404, "Error-02-0004">>
  ELSE IF courses[courseId].isDeleted THEN <<400, "Error-02-0005">>
  ELSE IF CourseDayIsPast(courses[courseId].courseDate, clock)
       THEN <<400, "Error-02-0006">>
  ELSE IF courses[courseId].availableSeats <= 0 THEN <<400, "Error-02-0007">>
  ELSE IF FindEnrollment(userId, courseId) # 0 THEN <<400, "Error-02-0011">>
  ELSE IF AlreadyRegistered(traders[userId].trainings, courseId,
                            courses[courseId].courseDate)
       THEN <<400, "Error-02-0008">>
  ELSE <<200, "Success-02-0001">>

\* newTraining
NewTraining(courseId, date) ==
  [courseId |-> courseId, date |-> date, isCompleted |-> FALSE]

\* A collection without the unique index.
UniqueIndexAllows_NoIndex(coll, doc) == TRUE

\* The unique index {userId: 1, courseId: 1}: may this document be inserted?
UniqueIndexAllows(coll, doc) ==
  \A i \in 1..Len(coll) :
    ~(coll[i].userId = doc.userId /\ coll[i].courseId = doc.courseId)

\* enrollment.save() of a new document throws on a duplicate key, and the
\* catch block answers 500.
RegisterResult(userId, courseId) ==
  LET out == RegisterOutcome(userId, courseId) IN
  IF out[1] = 200
     /\ ~UniqueIndexAllows(enrollments, NewEnrollment(userId, courseId))
  THEN <<500, "Error-02-0009">>
  ELSE out

\* RegisterCourse that forgets to decrement availableSeats.
RegisterCourse_SeatKept(userId, courseId) ==
  LET out == RegisterResult(userId, courseId) IN
  /\ resp' = Response("registerCourse", userId, courseId, Missing, out[1], out[2])
  /\ IF out[1] = 200
     THEN /\ enrollments' = Append(enrollments, NewEnrollment(userId, courseId))
          /\ traders' = [traders EXCEPT ![userId].trainings =
               Append(@, NewTraining(courseId, courses[courseId].courseDate))]
          /\ courses' = [courses EXCEPT
               ![courseId].registeredUsers = Append(@, userId)]
     ELSE UNCHANGED store
  /\ UNCHANGED <<clock, inflight, users>>

\* The whole handler, with no other request in between.
RegisterCourse(userId, courseId) ==
  LET out == RegisterResult(userId, courseId) IN
  /\ resp' = Response("registerCourse", userId, courseId, Missing, out[1], out[2])
  /\ IF out[1] = 200
     THEN /\ enrollments' = Append(enrollments, NewEnrollment(userId, courseId))
          /\ traders' = [traders EXCEPT ![userId].trainings =
               Append(@, NewTraining(courseId, courses[courseId].courseDate))]
          /\ courses' = [courses EXCEPT
               ![courseId].availableSeats = @ - 1,
               ![courseId].registeredUsers = Append(@, userId)]
     ELSE UNCHANGED store
  /\ UNCHANGED <<clock, inflight, users>>

----------------------------------------------------------------------------
(* POST /action  (admin approve / reject)                                  *)

\* ActionOutcome without the check that the Enrollment is still open.
ActionOutcome_NoProcessedCheck(userId, courseId, action) ==
  IF userId = Missing \/ courseId = Missing \/ action \notin {"approve", "reject"}
  THEN <<400, "Error-02-0001">>
  ELSE IF userId \notin DOMAIN traders \/ courseId \notin DOMAIN courses
  THEN <<404, "Error-03-0010">>
  ELSE IF FindEnrollment(userId, courseId) = 0 THEN <<404, "Error-03-0012">>
  ELSE IF FindTraining(traders[userId].trainings, courseId) = 0
  THEN <<404, "Error-03-0011">>
  ELSE IF action = "reject" THEN <<200, "Success-01-0001">>
  ELSE <<200, "Success-03-0002">>

\* The early returns of the handler, in order; <<200, ...>> when none is taken.
ActionOutcome(userId, courseId, action) ==
  IF userId = Missing \/ courseId = Missing \/ action \notin {"approve", "reject"}
  THEN <<400, "Error-02-0001">>
  ELSE IF userId \notin DOMAIN traders \/ courseId \notin DOMAIN courses
  THEN <<404, "Error-03-0010">>
  ELSE IF FindEnrollment(userId, courseId) = 0 THEN <<404, "Error-03-0012">>
  ELSE IF enrollments[FindEnrollment(userId, courseId)].status
            \notin {"pending", "validated"}
  THEN <<400, "Error-03-0013">>
  ELSE IF FindTraining(traders[userId].trainings, courseId) = 0
  THEN <<404, "Error-03-0011">>
  ELSE IF action = "reject" THEN <<200, "Success-01-0001">>
  ELSE <<200, "Success-03-0002">>

\* ApproveWindow without either cap at startDate + 2 years.
ApproveWindow_NoCap(startDate, endDate, now) ==
  LET start == IF startDate = Unset THEN now ELSE startDate[1]
      currentEndDate == IF endDate # Unset THEN endDate[1] ELSE start
      newEndDate ==
        IF currentEndDate < now
        THEN AddYears(now, 1, TzOffset)
        ELSE AddYears(currentEndDate, 1, ServerOffset)
  IN  [startDate |-> Some(start),
       endDate |-> Some(IF startDate = Unset
                        THEN AddYears(start, 2, ServerOffset)
                        ELSE newEndDate)]

\* ApproveWindow whose first approval grants one year instead of two.
ApproveWindow_OneYearFirst(startDate, endDate, now) ==
  LET start == IF startDate = Unset THEN now ELSE startDate[1]
      exactTwoYearsFromStart == AddYears(start, 2, ServerOffset)
      currentEndDate == IF endDate # Unset THEN endDate[1] ELSE start
      newEndDate ==
        IF currentEndDate < now
        THEN AddYears(now, 1, TzOffset)
        ELSE AddYears(currentEndDate, 1, ServerOffset)
      branchEnd ==
        IF startDate = Unset THEN AddYears(start, 1, ServerOffset)
        ELSE IF newEndDate > exactTwoYearsFromStart
             THEN exactTwoYearsFromStart
             ELSE newEndDate
  IN  [startDate |-> Some(start), endDate |-> Some(branchEnd)]

\* ApproveWindow that extends a lapsed window from its old end, not from now.
ApproveWindow_ExtendLapsed(startDate, endDate, now) ==
  LET start == IF startDate = Unset THEN now ELSE startDate[1]
      exactTwoYearsFromStart == AddYears(start, 2, ServerOffset)
      currentEndDate == IF endDate # Unset THEN endDate[1] ELSE start
      newEndDate == AddYears(currentEndDate, 1, ServerOffset)
      branchEnd ==
        IF startDate = Unset THEN AddYears(start, 2, ServerOffset)
        ELSE IF newEndDate > exactTwoYearsFromStart
             THEN exactTwoYearsFromStart
             ELSE newEndDate
  IN  [startDate |-> Some(start), endDate |-> Some(branchEnd)]

\* ApproveWindow that always renews from now, lapsed or not.
ApproveWindow_AlwaysFromNow(startDate, endDate, now) ==
  LET start == IF startDate = Unset THEN now ELSE startDate[1]
      exactTwoYearsFromStart == AddYears(start, 2, ServerOffset)
      newEndDate == AddYears(now, 1, TzOffset)
      branchEnd ==
        IF startDate = Unset THEN AddYears(start, 2, ServerOffset)
        ELSE IF newEndDate > exactTwoYearsFromStart
             THEN exactTwoYearsFromStart
             ELSE newEndDate
  IN  [startDate |-> Some(start), endDate |-> Some(branchEnd)]

\* The certification window an approval at `now` gives a trader whose window
\* was (startDate, endDate).
ApproveWindow(startDate, endDate, now) ==
  LET start == IF startDate = Unset THEN now ELSE startDate[1]
      exactTwoYearsFromStart == AddYears(start, 2, ServerOffset)
      currentEndDate == IF endDate # Unset THEN endDate[1] ELSE start
      newEndDate ==
        IF currentEndDate < now
        THEN AddYears(now, 1, TzOffset)
        ELSE AddYears(currentEndDate, 1, ServerOffset)
      branchEnd ==
        IF startDate = Unset THEN AddYears(start, 2, ServerOffset)
        ELSE IF newEndDate > exactTwoYearsFromStart
             THEN exactTwoYearsFromStart
             ELSE newEndDate
      \* "Ensure the exact calculation of 2 years is applied"
      finalEnd ==
        IF branchEnd > exactTwoYearsFromStart
        THEN exactTwoYearsFromStart
        ELSE branchEnd
  IN  [startDate |-> Some(start), endDate |-> Some(finalEnd)]

\* A handler that leaves waitingForApproveList as it is.
WithoutWaiting_Kept(list, userId) == list

\* The waitingForApproveList after the handler's findIndex / splice.
WithoutWaiting(list, userId) ==
  IF FindUser(list, userId) # 0 THEN RemoveAt(list, FindUser(list, userId))
  ELSE list

\* AdminAction whose approve branch leaves durationDisplay as it was.
AdminAction_DurationKept(adminId, userId, courseId, action) ==
  LET out == ActionOutcome(userId, courseId, action)
      e   == FindEnrollment(userId, courseId)
      ti  == FindTraining(traders[userId].trainings, courseId)
      win == ApproveWindow(traders[userId].startDate, traders[userId].endDate,
                           clock)
  IN
  /\ resp' = Response("action", userId, courseId, action, out[1], out[2])
  /\ IF out[1] = 200 /\ action = "reject"
     THEN /\ enrollments' = [enrollments EXCEPT
               ![e].verifiedBy = Some(adminId),
               ![e].verifiedAt = Some(clock),
               ![e].status = "rejected"]
          /\ traders' = [traders EXCEPT ![userId].trainings = RemoveAt(@, ti)]
          /\ courses' = [courses EXCEPT ![courseId].waitingForApproveList =
               WithoutWaiting(@, userId)]
     ELSE IF out[1] = 200 /\ action = "approve"
     THEN /\ enrollments' = [enrollments EXCEPT
               ![e].verifiedBy = Some(adminId),
               ![e].verifiedAt = Some(clock),
               ![e].status = "approved"]
          /\ traders' = [traders EXCEPT
               ![userId].trainings[ti].isCompleted = TRUE,
               ![userId].startDate = win.startDate,
               ![userId].endDate = win.endDate]
          /\ courses' = [courses EXCEPT ![courseId].waitingForApproveList =
               WithoutWaiting(@, userId)]
     ELSE UNCHANGED store
  /\ UNCHANGED <<clock, inflight, users>>

\* AdminAction whose reject branch stores no verifiedBy / verifiedAt.
AdminAction_RejectUnstamped(adminId, userId, courseId, action) ==
  LET out == ActionOutcome(userId, courseId, action)
      e   == FindEnrollment(userId, courseId)
      ti  == FindTraining(traders[userId].trainings, courseId)
      win == ApproveWindow(traders[userId].startDate, traders[userId].endDate,
                           clock)
  IN
  /\ resp' = Response("action", userId, courseId, action, out[1], out[2])
  /\ IF out[1] = 200 /\ action = "reject"
     THEN /\ enrollments' = [enrollments EXCEPT ![e].status = "rejected"]
          /\ traders' = [traders EXCEPT ![userId].trainings = RemoveAt(@, ti)]
          /\ courses' = [courses EXCEPT ![courseId].waitingForApproveList =
               WithoutWaiting(@, userId)]
     ELSE IF out[1] = 200 /\ action = "approve"
     THEN /\ enrollments' = [enrollments EXCEPT
               ![e].verifiedBy = Some(adminId),
               ![e].verifiedAt = Some(clock),
               ![e].status = "approved"]
          /\ traders' = [traders EXCEPT
               ![userId].trainings[ti].isCompleted = TRUE,
               ![userId].startDate = win.startDate,
               ![userId].endDate = win.endDate,
               ![userId].durationDisplay = <<2, 0, 0>>]
          /\ courses' = [courses EXCEPT ![courseId].waitingForApproveList =
               WithoutWaiting(@, userId)]
     ELSE UNCHANGED store
  /\ UNCHANGED <<clock, inflight, users>>

\* The whole handler, with no other request in between.
AdminAction(adminId, userId, courseId, action) ==
  LET out == ActionOutcome(userId, courseId, action)
      e   == FindEnrollment(userId, courseId)
      ti  == FindTraining(traders[userId].trainings, courseId)
      win == ApproveWindow(traders[userId].startDate, traders[userId].endDate,
                           clock)
  IN
  /\ resp' = Response("action", userId, courseId, action, out[1], out[2])
  /\ IF out[1] = 200 /\ action = "reject"
     THEN /\ enrollments' = [enrollments EXCEPT
               ![e].verifiedBy = Some(adminId),
               ![e].verifiedAt = Some(clock),
               ![e].status = "rejected"]
          /\ traders' = [traders EXCEPT ![userId].trainings = RemoveAt(@, ti)]
          /\ courses' = [courses EXCEPT ![courseId].waitingForApproveList =
               WithoutWaiting(@, userId)]
     ELSE IF out[1] = 200 /\ action = "approve"
     THEN /\ enrollments' = [enrollments EXCEPT
               ![e].verifiedBy = Some(adminId),
               ![e].verifiedAt = Some(clock),
               ![e].status = "approved"]
          /\ traders' = [traders EXCEPT
               ![userId].trainings[ti].isCompleted = TRUE,
               ![userId].startDate = win.startDate,
               ![userId].endDate = win.endDate,
               ![userId].durationDisplay = <<2, 0, 0>>]
          /\ courses' = [courses EXCEPT ![courseId].waitingForApproveList =
               WithoutWaiting(@, userId)]
     ELSE UNCHANGED store
  /\ UNCHANGED <<clock, inflight, users>>

----------------------------------------------------------------------------
(* POST /generateCode                                                      *)

\* courseStartTime.add(hours, "hour").add(2, "hour")
CodeExpirationTime(course) == AddHours(AddHours(course.courseDate, course.hours), 2)

\* A courseDate of null, as $set can store it.
NoDate == -1

\* !courseDate || !hours
LacksSchedule(course) == course.courseDate = NoDate \/ course.hours = 0

\* GenerateOutcome without the refusal before the course starts.
GenerateOutcome_NoStartCheck(courseId) ==
  IF courseId = Missing THEN <<400, "Error-01-0001">>
  ELSE IF courseId \notin DOMAIN courses THEN <<404, "Error-01-0003">>
  ELSE LET course == courses[courseId] IN
  IF LacksSchedule(course) THEN <<400, "Error-01-0007">>
  ELSE IF clock > CodeExpirationTime(course) THEN <<400, "Error-01-0005">>
  ELSE IF /\ course.generatedCode # Unset
          /\ course.generatedCodeTimestamp # Unset
          /\ course.generatedCodeTimestamp[1] > course.courseDate
          /\ course.generatedCodeTimestamp[1] < CodeExpirationTime(course)
  THEN <<400, "Error-01-0006">>
  ELSE <<200, "Success-01-0002">>

\* The early returns of the handler, in order; <<200, ...>> when none is taken.
GenerateOutcome(courseId) ==
  IF courseId = Missing THEN <<400, "Error-01-0001">>
  ELSE IF courseId \notin DOMAIN courses THEN <<404, "Error-01-0003">>
  ELSE LET course == courses[courseId] IN
  IF LacksSchedule(course) THEN <<400, "Error-01-0007">>
  ELSE IF clock < course.courseDate THEN <<400, "Error-01-0008">>
  ELSE IF clock > CodeExpirationTime(course) THEN <<400, "Error-01-0005">>
  ELSE IF /\ course.generatedCode # Unset
          /\ course.generatedCodeTimestamp # Unset
          /\ course.generatedCodeTimestamp[1] > course.courseDate
          /\ course.generatedCodeTimestamp[1] < CodeExpirationTime(course)
  THEN <<400, "Error-01-0006">>
  ELSE <<200, "Success-01-0002">>

GenerateCode(courseId, newGeneratedCode) ==
  LET out == GenerateOutcome(courseId) IN
  /\ resp' = Response("generateCode", Missing, courseId,
                      IF out[1] = 200 THEN newGeneratedCode ELSE Missing,
                      out[1], out[2])
  /\ IF out[1] = 200
     THEN courses' = [courses EXCEPT
            ![courseId].generatedCode = Some(newGeneratedCode),
            ![courseId].generatedCodeTimestamp = Some(clock)]
     ELSE UNCHANGED courses
  /\ UNCHANGED <<clock, traders, enrollments, inflight, users>>

----------------------------------------------------------------------------
(* POST /validateCode                                                      *)

\* Courses that Course.findOne({generatedCode: enteredCode}) may return.
CoursesWithCode(enteredCode) ==
  {c \in DOMAIN courses : courses[c].generatedCode = Some(enteredCode)}

\* ValidateOutcome that refuses the last instant of the window.
ValidateOutcome_ExclusiveEnd(userId, courseId) ==
  LET course == courses[courseId]
      e == FindEnrollment(userId, courseId)
  IN
  IF FindUser(course.registeredUsers, userId) = 0 THEN <<400, "Error-02-0007">>
  ELSE IF e = 0 THEN <<404, "Error-02-0008">>
  ELSE IF enrollments[e].status # "pending" THEN <<400, "Error-02-0009">>
  ELSE IF clock >= CodeExpirationTime(course) THEN <<400, "Error-02-0004">>
  ELSE IF clock < course.courseDate THEN <<400, "Error-02-0005">>
  ELSE <<200, "Success-02-0001">>

\* The early returns once findOne has returned `courseId`.
ValidateOutcome(userId, courseId) ==
  LET course == courses[courseId]
      e == FindEnrollment(userId, courseId)
  IN
  IF FindUser(course.registeredUsers, userId) = 0 THEN <<400, "Error-02-0007">>
  ELSE IF e = 0 THEN <<404, "Error-02-0008">>
  ELSE IF enrollments[e].status # "pending" THEN <<400, "Error-02-0009">>
  ELSE IF clock > CodeExpirationTime(course) THEN <<400, "Error-02-0004">>
  ELSE IF clock < course.courseDate THEN <<400, "Error-02-0005">>
  ELSE <<200, "Success-02-0001">>

\* The whole handler for the authenticated caller `userId`.
ValidateCode(userId, enteredCode) ==
  IF enteredCode = Missing
  THEN /\ resp' = Response("validateCode", userId, Missing, enteredCode,
                           400, "Error-02-0001")
       /\ UNCHANGED <<clock, store, inflight, users>>
  ELSE IF CoursesWithCode(enteredCode) = {}
  THEN /\ resp' = Response("validateCode", userId, Missing, enteredCode,
                           404, "Error-02-0002")
       /\ UNCHANGED <<clock, store, inflight, users>>
  ELSE \E courseId \in CoursesWithCode(enteredCode) :
    LET out == ValidateOutcome(userId, courseId)
        e   == FindEnrollment(userId, courseId)
    IN
    /\ resp' = Response("validateCode", userId, courseId, enteredCode,
                        out[1], out[2])
    /\ IF out[1] = 200
       THEN /\ enrollments' = [enrollments EXCEPT
                 ![e].status = "validated",
                 ![e].validationCode = Some(enteredCode),
                 ![e].validatedAt = Some(clock)]
            /\ courses' = [courses EXCEPT ![courseId].waitingForApproveList =
                 IF FindUser(@, userId) = 0 THEN Append(@, userId) ELSE @]
            /\ UNCHANGED traders
       ELSE UNCHANGED store
    /\ UNCHANGED <<clock, inflight, users>>

----------------------------------------------------------------------------
(* Time and the sequential specification.                                  *)

\* Time passes between requests.
Tick ==
  /\ \E t \in Instants : t > clock /\ clock' = t
  /\ resp' = NoResponse
  /\ UNCHANGED <<store, inflight, users>>

Next ==
  \/ Tick
  \/ \E r \in RegisterRequests : RegisterCourse(r[1], r[2])
  \/ \E a \in Admins, r \in ActionRequests : AdminAction(a, r[1], r[2], r[3])
  \/ \E c \in CourseIdInputs, code \in Codes : GenerateCode(c, code)
  \/ \E u \in Users, code \in CodeInputs : ValidateCode(u, code)

Spec == Init /\ [][Next]_vars

----------------------------------------------------------------------------
(* POST /registerCourse, one store operation at a time: every await of the *)
(* handler is a point where other requests run.                            *)

\* A request that arrives takes the first free slot.
FirstFreeSlot ==
  IF inflight["r1"].pc = "idle" THEN "r1" ELSE "r2"

\* Reply of the request in slot i; the slot is free again.
Reply(i, out) ==
  /\ resp' = Response("registerCourse", inflight[i].userId, inflight[i].courseId,
                      Missing, out[1], out[2])
  /\ inflight' = [inflight EXCEPT ![i] = Idle]

\* await Trader.findOne({userId}) and the checks on its result.  `existed`
\* notes whether the pair had an Enrollment when the request arrived.
RegFindTrader(i, userId, courseId) ==
  /\ inflight[i].pc = "idle"
  /\ i = FirstFreeSlot
  /\ LET req == [pc |-> "findCourse", userId |-> userId, courseId |-> courseId,
                 existed |-> FindEnrollment(userId, courseId) # 0,
                 trainings |-> << >>, availableSeats |-> 0, courseDate |-> 0]
     IN
     IF userId = Missing \/ courseId = Missing
     THEN /\ resp' = Response("registerCourse", userId, courseId, Missing,
                              400, "Error-02-0001")
          /\ UNCHANGED inflight
     ELSE IF userId \notin DOMAIN traders
     THEN /\ resp' = Response("registerCourse", userId, courseId, Missing,
                              404, "Error-02-0002")
          /\ UNCHANGED inflight
     ELSE IF traders[userId].isDeleted
     THEN /\ resp' = Response("registerCourse", userId, courseId, Missing,
                              400, "Error-02-0003")
          /\ UNCHANGED inflight
     ELSE /\ resp' = NoResponse
          /\ inflight' = [inflight EXCEPT ![i] =
               [req EXCEPT !.trainings = traders[userId].trainings]]
  /\ UNCHANGED <<clock, store, users>>

\* await Course.findById(courseId) and the checks on its result.
RegFindCourse(i) ==
  /\ inflight[i].pc = "findCourse"
  /\ LET courseId == inflight[i].courseId IN
     IF courseId \notin DOMAIN courses THEN Reply(i, <<404, "Error-02-0004">>)
     ELSE IF courses[courseId].isDeleted THEN Reply(i, <<400, "Error-02-0005">>)
     ELSE IF CourseDayIsPast(courses[courseId].courseDate, clock)
     THEN Reply(i, <<400, "Error-02-0006">>)
     ELSE IF courses[courseId].availableSeats <= 0
     THEN Reply(i, <<400, "Error-02-0007">>)
     ELSE /\ resp' = NoResponse
          /\ inflight' = [inflight EXCEPT
               ![i].pc = "findEnrollment",
               ![i].availableSeats = courses[courseId].availableSeats,
               ![i].courseDate = courses[courseId].courseDate]
  /\ UNCHANGED <<clock, store, users>>

\* await Enrollment.findOne({userId, courseId}), then the check of the
\* trainings read with the trader.
RegFindEnrollment(i) ==
  /\ inflight[i].pc = "findEnrollment"
  /\ IF FindEnrollment(inflight[i].userId, inflight[i].courseId) # 0
     THEN Reply(i, <<400, "Error-02-0011">>)
     ELSE IF AlreadyRegistered(inflight[i].trainings, inflight[i].courseId,
                               inflight[i].courseDate)
     THEN Reply(i, <<400, "Error-02-0008">>)
     ELSE /\ resp' = NoResponse
          /\ inflight' = [inflight EXCEPT ![i].pc = "saveEnrollment"]
  /\ UNCHANGED <<clock, store, users>>

\* await enrollment.save(): the insert fails on a duplicate key, which the
\* catch block turns into a 500.
RegSaveEnrollment(i) ==
  /\ inflight[i].pc = "saveEnrollment"
  /\ LET doc == NewEnrollment(inflight[i].userId, inflight[i].courseId) IN
     IF UniqueIndexAllows(enrollments, doc)
     THEN /\ enrollments' = Append(enrollments, doc)
          /\ resp' = NoResponse
          /\ inflight' = [inflight EXCEPT ![i].pc = "saveTrader"]
     ELSE /\ Reply(i, <<500, "Error-02-0009">>)
          /\ UNCHANGED enrollments
  /\ UNCHANGED <<clock, traders, courses, users>>

\* trader.trainings.push(newTraining); await trader.save(): the push is sent
\* as a $push, which appends to the stored array.
RegSaveTrader(i) ==
  /\ inflight[i].pc = "saveTrader"
  /\ traders' = [traders EXCEPT ![inflight[i].userId].trainings =
       Append(@, NewTraining(inflight[i].courseId, inflight[i].courseDate))]
  /\ resp' = NoResponse
  /\ inflight' = [inflight EXCEPT ![i].pc = "saveCourse"]
  /\ UNCHANGED <<clock, courses, enrollments, users>>

\* RegSaveCourse as a conditional update: refused when the stored course has
\* no seat left, otherwise the stored availableSeats is lowered by 1.
RegSaveCourse_IfSeatLeft(i) ==
  /\ inflight[i].pc = "saveCourse"
  /\ IF courses[inflight[i].courseId].availableSeats <= 0
     THEN /\ Reply(i, <<400, "Error-02-0007">>)
          /\ UNCHANGED courses
     ELSE /\ courses' = [courses EXCEPT
               ![inflight[i].courseId].availableSeats = @ - 1,
               ![inflight[i].courseId].registeredUsers =
                  Append(@, inflight[i].userId)]
          /\ Reply(i, <<200, "Success-02-0001">>)
  /\ UNCHANGED <<clock, traders, enrollments, users>>

\* course.availableSeats -= 1; course.registeredUsers.push(...);
\* await course.save(): availableSeats is written as the value read minus 1.
RegSaveCourse(i) ==
  /\ inflight[i].pc = "saveCourse"
  /\ courses' = [courses EXCEPT
       ![inflight[i].courseId].availableSeats = inflight[i].availableSeats - 1,
       ![inflight[i].courseId].registeredUsers = Append(@, inflight[i].userId)]
  /\ Reply(i, <<200, "Success-02-0001">>)
  /\ UNCHANGED <<clock, traders, enrollments, users>>

\* One trader and one course, while the course is in progress: requests meet
\* on the same pair.
InitConc ==
  /\ clock = Moments[2]
  /\ \E ms \in 1..MaxSeats :
       /\ traders = [u \in {"u1"} |-> NewTrader(FALSE)]
       /\ courses = [c \in {"c1"} |-> NewCourse(FALSE, CourseDay, 3, ms)]
  /\ enrollments = << >>
  /\ resp = NoResponse
  /\ inflight = [i \in Slots |-> Idle]
  /\ users = TraderAccounts

\* Requests sent while registrations are in progress: well-formed ones for the
\* course in the store.
ConcRegisterRequests == Users \X {"c1"}
ConcActionRequests == Users \X {"c1"} \X {"approve", "reject"}

\* The other handlers run between the store operations of the registrations.
NextConc ==
  \/ \E i \in Slots, r \in ConcRegisterRequests : RegFindTrader(i, r[1], r[2])
  \/ \E i \in Slots : RegFindCourse(i)
  \/ \E i \in Slots : RegFindEnrollment(i)
  \/ \E i \in Slots : RegSaveEnrollment(i)
  \/ \E i \in Slots : RegSaveTrader(i)
  \/ \E i \in Slots : RegSaveCourse(i)
  \/ \E a \in Admins, r \in ConcActionRequests : AdminAction(a, r[1], r[2], r[3])
  \/ \E code \in Codes : GenerateCode("c1", code)
  \/ \E u \in Users, code \in Codes : ValidateCode(u, code)

SpecConc == InitConc /\ [][NextConc]_vars

----------------------------------------------------------------------------
(* Registrations of two traders for one course, interleaved, with store    *)
(* writes that may fail.                                                   *)

\* await trader.save() rejects: the catch block answers 500 and nothing more
\* is written.
RegSaveTraderFails(i) ==
  /\ inflight[i].pc = "saveTrader"
  /\ Reply(i, <<500, "Error-02-0009">>)
  /\ UNCHANGED <<clock, store, users>>

\* RegSaveCourseFails with a catch block that deletes the Enrollment of the
\* request.
RegSaveCourseFails_RollsBack(i) ==
  /\ inflight[i].pc = "saveCourse"
  /\ Reply(i, <<500, "Error-02-0009">>)
  /\ enrollments' =
       RemoveAt(enrollments,
                FindEnrollment(inflight[i].userId, inflight[i].courseId))
  /\ UNCHANGED <<clock, traders, courses, users>>

\* await course.save() rejects: the catch block answers 500 and nothing more
\* is written.
RegSaveCourseFails(i) ==
  /\ inflight[i].pc = "saveCourse"
  /\ Reply(i, <<500, "Error-02-0009">>)
  /\ UNCHANGED <<clock, store, users>>

\* Two traders and one course with free seats, before the course day.
InitRace ==
  /\ clock = Moments[1]
  /\ \E ms \in 1..MaxSeats :
       /\ traders = [u \in Users |-> NewTrader(FALSE)]
       /\ courses = [c \in {"c1"} |-> NewCourse(FALSE, CourseDay, 3, ms)]
  /\ enrollments = << >>
  /\ resp = NoResponse
  /\ inflight = [i \in Slots |-> Idle]
  /\ users = TraderAccounts

NextRace ==
  \/ \E i \in Slots, r \in ConcRegisterRequests : RegFindTrader(i, r[1], r[2])
  \/ \E i \in Slots : RegFindCourse(i)
  \/ \E i \in Slots : RegFindEnrollment(i)
  \/ \E i \in Slots : RegSaveEnrollment(i)
  \/ \E i \in Slots : RegSaveTrader(i)
  \/ \E i \in Slots : RegSaveTraderFails(i)
  \/ \E i \in Slots : RegSaveCourse(i)
  \/ \E i \in Slots : RegSaveCourseFails(i)

SpecRace == InitRace /\ [][NextRace]_vars

----------------------------------------------------------------------------
(* Registrations, one at a time, for courses scheduled around midnight of  *)
(* the server's calendar.                                                  *)

\* A course early in the morning of CourseDay in Asia/Bangkok: the evening
\* before in UTC.
EarlyMorning == At(2024, 3, 10, 5, 0, TzOffset)

\* A course just after midnight of the next day in Asia/Bangkok: still the
\* day of CourseDay in UTC.
AfterMidnight == At(2024, 3, 11, 1, 0, TzOffset)

DaysDateChoices == {CourseDay, EarlyMorning, AfterMidnight, OtherDay}

\* Traders and courses as their routes create them, the second course on any
\* of the schedules.
InitDays ==
  /\ clock = Moments[1]
  /\ \E pop \in Populations, dt \in BOOLEAN, dc \in BOOLEAN,
        cd \in DaysDateChoices, ms \in 1..MaxSeats :
       /\ traders = [u \in pop[1] |-> NewTrader(u = "u1" /\ dt)]
       /\ courses = [c \in pop[2] |->
            NewCourse(c = "c2" /\ dc, IF c = "c1" THEN CourseDay ELSE cd, 3, ms)]
  /\ enrollments = << >>
  /\ resp = NoResponse
  /\ inflight = [i \in Slots |-> Idle]
  /\ users = TraderAccounts

NextDays ==
  \/ Tick
  \/ \E r \in RegisterRequests : RegisterCourse(r[1], r[2])
  \/ \E a \in Admins, r \in ActionRequests : AdminAction(a, r[1], r[2], r[3])

SpecDays == InitDays /\ [][NextDays]_vars

----------------------------------------------------------------------------
(* POST /action, one store operation at a time.  Each slot serves one      *)
(* request and keeps its answer.  A save that rewrites an array (splice) or *)
(* an element of one (trainings[i].isCompleted) carries Mongoose's version  *)
(* condition: it fails when the array has been rewritten since the document *)
(* was read, which here is when its length has changed.                     *)

\* The request in slot i is answered.
ActReply(i, out) ==
  /\ resp' = Response("action", inflight[i].userId, inflight[i].courseId,
                      inflight[i].action, out[1], out[2])
  /\ inflight' = [inflight EXCEPT ![i].pc = "done", ![i].status = out[1]]

\* Input check and await Trader.findOne({userId}).
ActFindTrader(i, adminId, userId, courseId, action) ==
  /\ inflight[i].pc = "idle"
  /\ i = FirstFreeSlot
  /\ IF userId = Missing \/ courseId = Missing
        \/ action \notin {"approve", "reject"}
     THEN /\ resp' = Response("action", userId, courseId, action,
                              400, "Error-02-0001")
          /\ UNCHANGED inflight
     ELSE /\ resp' = NoResponse
          /\ inflight' = [inflight EXCEPT ![i] =
               [pc |-> "actFindCourse", adminId |-> adminId,
                userId |-> userId, courseId |-> courseId, action |-> action,
                trader |-> IF userId \in DOMAIN traders
                           THEN Some(traders[userId]) ELSE Unset,
                course |-> Unset, verifiedAt |-> 0, status |-> 0]]
  /\ UNCHANGED <<clock, store, users>>

\* await Course.findById(courseId), then the check of both documents.
ActFindCourse(i) ==
  /\ inflight[i].pc = "actFindCourse"
  /\ IF inflight[i].trader = Unset \/ inflight[i].courseId \notin DOMAIN courses
     THEN ActReply(i, <<404, "Error-03-0010">>)
     ELSE /\ resp' = NoResponse
          /\ inflight' = [inflight EXCEPT
               ![i].pc = "actFindEnrollment",
               ![i].course = Some(courses[inflight[i].courseId])]
  /\ UNCHANGED <<clock, store, users>>

\* await Enrollment.findOne({userId, courseId}), the check of its status, the
\* search of the training entry and the stamp, assigned in memory.
ActFindEnrollment(i) ==
  /\ inflight[i].pc = "actFindEnrollment"
  /\ LET e == FindEnrollment(inflight[i].userId, inflight[i].courseId) IN
     IF e = 0 THEN ActReply(i, <<404, "Error-03-0012">>)
     ELSE IF enrollments[e].status \notin {"pending", "validated"}
     THEN ActReply(i, <<400, "Error-03-0013">>)
     ELSE IF FindTraining(inflight[i].trader[1].trainings, inflight[i].courseId) = 0
     THEN ActReply(i, <<404, "Error-03-0011">>)
     ELSE /\ resp' = NoResponse
          /\ inflight' = [inflight EXCEPT ![i].pc = "actSaveEnrollment",
                                          ![i].verifiedAt = clock]
  /\ UNCHANGED <<clock, store, users>>

\* Where the handler goes after a save: the course is saved only when the
\* handler's copy of waitingForApproveList names the user.
InWaitingCopy(i) ==
  FindUser(inflight[i].course[1].waitingForApproveList, inflight[i].userId) # 0

\* ActSaveEnrollment as a conditional update: refused when the stored status
\* is no longer pending or validated.
ActSaveEnrollment_IfOpen(i) ==
  /\ inflight[i].pc = "actSaveEnrollment"
  /\ LET e == FindEnrollment(inflight[i].userId, inflight[i].courseId) IN
     IF enrollments[e].status \notin {"pending", "validated"}
     THEN /\ ActReply(i, <<400, "Error-03-0013">>)
          /\ UNCHANGED enrollments
     ELSE /\ enrollments' = [enrollments EXCEPT
               ![e].verifiedBy = Some(inflight[i].adminId),
               ![e].verifiedAt = Some(inflight[i].verifiedAt),
               ![e].status = IF inflight[i].action = "reject"
                             THEN "rejected" ELSE "approved"]
          /\ resp' = NoResponse
          /\ inflight' = [inflight EXCEPT ![i].pc =
               IF inflight[i].action = "approve" /\ InWaitingCopy(i)
               THEN "actSaveCourse" ELSE "actSaveTrader"]
  /\ UNCHANGED <<clock, traders, courses, users>>

\* await enrollment.save(): status and stamp are written as assigned.
ActSaveEnrollment(i) ==
  /\ inflight[i].pc = "actSaveEnrollment"
  /\ LET e == FindEnrollment(inflight[i].userId, inflight[i].courseId) IN
     enrollments' = [enrollments EXCEPT
       ![e].verifiedBy = Some(inflight[i].adminId),
       ![e].verifiedAt = Some(inflight[i].verifiedAt),
       ![e].status = IF inflight[i].action = "reject"
                     THEN "rejected" ELSE "approved"]
  /\ resp' = NoResponse
  /\ inflight' = [inflight EXCEPT ![i].pc =
       IF inflight[i].action = "approve" /\ InWaitingCopy(i)
       THEN "actSaveCourse" ELSE "actSaveTrader"]
  /\ UNCHANGED <<clock, traders, courses, users>>

\* await trader.save().  reject: trainings without the entry found in the
\* handler's copy, then the course if needed.  approve: the entry completed
\* and the window computed from the handler's copy; the answer follows.
ActSaveTrader(i) ==
  /\ inflight[i].pc = "actSaveTrader"
  /\ LET u    == inflight[i].userId
         copy == inflight[i].trader[1]
         ti   == FindTraining(copy.trainings, inflight[i].courseId)
         win  == ApproveWindow(copy.startDate, copy.endDate, clock)
     IN
     IF Len(traders[u].trainings) # Len(copy.trainings)
     THEN /\ ActReply(i, <<500, "Error-03-0011">>)
          /\ UNCHANGED traders
     ELSE IF inflight[i].action = "reject"
     THEN /\ traders' = [traders EXCEPT
               ![u].trainings = RemoveAt(copy.trainings, ti)]
          /\ IF InWaitingCopy(i)
             THEN /\ resp' = NoResponse
                  /\ inflight' = [inflight EXCEPT ![i].pc = "actSaveCourse"]
             ELSE ActReply(i, <<200, "Success-01-0001">>)
     ELSE /\ traders' = [traders EXCEPT
               ![u].trainings[ti].isCompleted = TRUE,
               ![u].startDate = win.startDate,
               ![u].endDate = win.endDate,
               ![u].durationDisplay = <<2, 0, 0>>]
          /\ ActReply(i, <<200, "Success-03-0002">>)
  /\ UNCHANGED <<clock, courses, enrollments, users>>

\* course.waitingForApproveList.splice(waitingIndex, 1); await course.save()
ActSaveCourse(i) ==
  /\ inflight[i].pc = "actSaveCourse"
  /\ LET c    == inflight[i].courseId
         copy == inflight[i].course[1].waitingForApproveList
     IN
     IF Len(courses[c].waitingForApproveList) # Len(copy)
     THEN /\ ActReply(i, <<500, "Error-03-0011">>)
          /\ UNCHANGED courses
     ELSE /\ courses' = [courses EXCEPT ![c].waitingForApproveList =
               RemoveAt(copy, FindUser(copy, inflight[i].userId))]
          /\ IF inflight[i].action = "reject"
             THEN ActReply(i, <<200, "Success-01-0001">>)
             ELSE /\ resp' = NoResponse
                  /\ inflight' = [inflight EXCEPT ![i].pc = "actSaveTrader"]
  /\ UNCHANGED <<clock, traders, enrollments, users>>

\* u1 is registered for c1; its Enrollment is pending, or validated with u1 on
\* the waiting list.
InitAction ==
  /\ clock = Moments[2]
  /\ traders = [u \in {"u1"} |->
       [NewTrader(FALSE) EXCEPT !.trainings = << NewTraining("c1", CourseDay) >>]]
  /\ \E validated \in BOOLEAN, code \in Codes :
       /\ courses = [c \in {"c1"} |->
            [NewCourse(FALSE, CourseDay, 3, MaxSeats + 1) EXCEPT
               !.availableSeats = MaxSeats,
               !.registeredUsers = <<"u1">>,
               !.generatedCode = Some(code),
               !.generatedCodeTimestamp = Some(clock),
               !.waitingForApproveList =
                  IF validated THEN <<"u1">> ELSE << >>]]
       /\ enrollments =
            << IF validated
               THEN [NewEnrollment("u1", "c1") EXCEPT
                       !.status = "validated",
                       !.validationCode = Some(code),
                       !.validatedAt = Some(clock)]
               ELSE NewEnrollment("u1", "c1") >>
  /\ resp = NoResponse
  /\ inflight = [i \in Slots |-> Idle]
  /\ users = TraderAccounts

NextAction ==
  \/ \E i \in Slots, a \in Admins, r \in ActionRequests :
       ActFindTrader(i, a, r[1], r[2], r[3])
  \/ \E i \in Slots : ActFindCourse(i)
  \/ \E i \in Slots : ActFindEnrollment(i)
  \/ \E i \in Slots : ActSaveEnrollment(i)
  \/ \E i \in Slots : ActSaveTrader(i)
  \/ \E i \in Slots : ActSaveCourse(i)

SpecAction == InitAction /\ [][NextAction]_vars

----------------------------------------------------------------------------
(* POST /action when a save after the Enrollment's is rejected by the      *)
(* store.                                                                  *)

\* await trader.save() or await course.save() throws: the catch block answers
\* 500 and nothing more is written.
ActSaveFails(i) ==
  /\ inflight[i].pc \in {"actSaveTrader", "actSaveCourse"}
  /\ ActReply(i, <<500, "Error-03-0011">>)
  /\ UNCHANGED <<clock, store, users>>

NextActionFail ==
  \/ \E i \in Slots, a \in Admins, r \in ActionRequests :
       ActFindTrader(i, a, r[1], r[2], r[3])
  \/ \E i \in Slots : ActFindCourse(i)
  \/ \E i \in Slots : ActFindEnrollment(i)
  \/ \E i \in Slots : ActSaveEnrollment(i)
  \/ \E i \in Slots : ActSaveTrader(i)
  \/ \E i \in Slots : ActSaveCourse(i)
  \/ \E i \in Slots : ActSaveFails(i)

SpecActionFail == InitAction /\ [][NextActionFail]_vars

----------------------------------------------------------------------------
(* The approval of a trader whose certification window is arbitrary: the   *)
(* window computation on all inputs.                                       *)

\* Values of startDate, endDate and now.
WindowInstants ==
  { At(2024, 1, 1, 10, 0, TzOffset),
    At(2024, 1, 10, 10, 0, TzOffset),
    At(2024, 2, 29, 2, 0, TzOffset),     \* Feb 29 in Bangkok, Feb 28 in UTC
    At(2024, 2, 29, 12, 0, TzOffset),    \* Feb 29 in both
    At(2025, 1, 10, 10, 0, TzOffset),
    At(2025, 2, 1, 10, 0, TzOffset),
    At(2025, 3, 1, 10, 0, TzOffset),
    At(2025, 6, 10, 10, 0, TzOffset),
    At(2026, 1, 10, 10, 0, TzOffset),
    At(2026, 3, 1, 12, 0, TzOffset),
    At(2027, 1, 10, 10, 0, TzOffset) }

OptionalInstants == {Unset} \cup {Some(t) : t \in WindowInstants}

\* Trader u1 holds pending registrations for c1 and c2, and its window has been
\* set to any values (PUT /trader sets whatever fields the admin sends).
InitWindow ==
  /\ clock \in WindowInstants
  /\ \E sd \in OptionalInstants, ed \in OptionalInstants :
       traders = [u \in {"u1"} |->
         [NewTrader(FALSE) EXCEPT
            !.startDate = sd, !.endDate = ed,
            !.trainings = << NewTraining("c1", CourseDay),
                             NewTraining("c2", OtherDay) >>]]
  /\ courses = [c \in Courses |->
       [NewCourse(FALSE, IF c = "c1" THEN CourseDay ELSE OtherDay, 3, MaxSeats)
          EXCEPT !.availableSeats = MaxSeats - 1, !.registeredUsers = <<"u1">>]]
  /\ enrollments = << NewEnrollment("u1", "c1"), NewEnrollment("u1", "c2") >>
  /\ resp = NoResponse
  /\ inflight = [i \in Slots |-> Idle]
  /\ users = TraderAccounts

NextWindow ==
  \E a \in Admins, r \in ActionRequests : AdminAction(a, r[1], r[2], r[3])

SpecWindow == InitWindow /\ [][NextWindow]_vars

----------------------------------------------------------------------------
(* The attendance code during one course session: c1 is held on CourseDay  *)
(* at 09:00 for 3 hours, so its codes are valid from 09:00 to 14:00.       *)

\* Instants around the session, in increasing order.
SessionMoments ==
  << At(2024, 3, 10, 8, 59, TzOffset),
     At(2024, 3, 10, 9, 0, TzOffset),
     At(2024, 3, 10, 12, 0, TzOffset),
     At(2024, 3, 10, 14, 0, TzOffset),
     At(2024, 3, 10, 14, 1, TzOffset) >>

SessionInstants == {SessionMoments[i] : i \in 1..Len(SessionMoments)}

\* Issuance time of a code left on the course by an earlier session.
EarlierSession == At(2024, 3, 3, 10, 0, TzOffset)

\* u1 holds a pending registration for c1; u2 is registered for no course and
\* nobody is registered for c2, held at the same time.  c1 may carry the code
\* of an earlier session (a course is rescheduled by PUT /courses/:courseId,
\* which sets any field).
InitCode ==
  /\ clock = SessionMoments[1]
  /\ traders = [u \in Users |->
       IF u = "u1"
       THEN [NewTrader(FALSE) EXCEPT
               !.trainings = << NewTraining("c1", CourseDay) >>]
       ELSE NewTrader(FALSE)]
  /\ \E old \in {Unset} \cup {Some(code) : code \in Codes} :
       courses = [c \in Courses |->
         IF c = "c1"
         THEN [NewCourse(FALSE, CourseDay, 3, MaxSeats + 1) EXCEPT
                 !.availableSeats = MaxSeats,
                 !.registeredUsers = <<"u1">>,
                 !.generatedCode = old,
                 !.generatedCodeTimestamp =
                    IF old = Unset THEN Unset ELSE Some(EarlierSession)]
         ELSE NewCourse(FALSE, CourseDay, 3, MaxSeats)]
  /\ enrollments = << NewEnrollment("u1", "c1") >>
  /\ resp = NoResponse
  /\ inflight = [i \in Slots |-> Idle]
  /\ users = TraderAccounts

\* Time passes between requests, minute by minute around the window's ends.
TickSession ==
  /\ \E t \in SessionInstants : t > clock /\ clock' = t
  /\ resp' = NoResponse
  /\ UNCHANGED <<store, inflight, users>>

NextCode ==
  \/ TickSession
  \/ \E c \in Courses, code \in Codes : GenerateCode(c, code)
  \/ \E u \in Users, code \in CodeInputs : ValidateCode(u, code)

SpecCode == InitCode /\ [][NextCode]_vars

----------------------------------------------------------------------------
(* POST /validateCode, one store operation at a time.                      *)

\* Reply of the /validateCode request in slot i; the slot is free again.
ValReply(i, out) ==
  /\ resp' = Response("validateCode", inflight[i].userId, inflight[i].courseId,
                      inflight[i].enteredCode, out[1], out[2])
  /\ inflight' = [inflight EXCEPT ![i] = Idle]

\* await Course.findOne({generatedCode: enteredCode}) and the checks on the
\* course it returns; the handler keeps this copy of the course to the end.
ValFindCourse(i, userId, enteredCode) ==
  /\ inflight[i].pc = "idle"
  /\ i = FirstFreeSlot
  /\ IF enteredCode = Missing
     THEN /\ resp' = Response("validateCode", userId, Missing, enteredCode,
                              400, "Error-02-0001")
          /\ UNCHANGED inflight
     ELSE IF CoursesWithCode(enteredCode) = {}
     THEN /\ resp' = Response("validateCode", userId, Missing, enteredCode,
                              404, "Error-02-0002")
          /\ UNCHANGED inflight
     ELSE \E courseId \in CoursesWithCode(enteredCode) :
       IF FindUser(courses[courseId].registeredUsers, userId) = 0
       THEN /\ resp' = Response("validateCode", userId, courseId, enteredCode,
                                400, "Error-02-0007")
            /\ UNCHANGED inflight
       ELSE /\ resp' = NoResponse
            /\ inflight' = [inflight EXCEPT ![i] =
                 [pc |-> "valFindEnrollment", userId |-> userId,
                  enteredCode |-> enteredCode, courseId |-> courseId,
                  course |-> courses[courseId], now |-> 0]]
  /\ UNCHANGED <<clock, store, users>>

\* await Enrollment.findOne({userId, courseId}), the check of its status and
\* the check of the time.
ValFindEnrollment(i) ==
  /\ inflight[i].pc = "valFindEnrollment"
  /\ LET e == FindEnrollment(inflight[i].userId, inflight[i].courseId)
         course == inflight[i].course
     IN
     IF e = 0 THEN ValReply(i, <<404, "Error-02-0008">>)
     ELSE IF enrollments[e].status # "pending"
     THEN ValReply(i, <<400, "Error-02-0009">>)
     ELSE IF clock > CodeExpirationTime(course)
     THEN ValReply(i, <<400, "Error-02-0004">>)
     ELSE IF clock < course.courseDate
     THEN ValReply(i, <<400, "Error-02-0005">>)
     ELSE /\ resp' = NoResponse
          /\ inflight' = [inflight EXCEPT ![i].pc = "valSaveEnrollment",
                                          ![i].now = clock]
  /\ UNCHANGED <<clock, store, users>>

\* await enrollment.save(), then the search of the caller in the handler's
\* copy of waitingForApproveList.
ValSaveEnrollment(i) ==
  /\ inflight[i].pc = "valSaveEnrollment"
  /\ LET e == FindEnrollment(inflight[i].userId, inflight[i].courseId) IN
     enrollments' = [enrollments EXCEPT
       ![e].status = "validated",
       ![e].validationCode = Some(inflight[i].enteredCode),
       ![e].validatedAt = Some(inflight[i].now)]
  /\ IF FindUser(inflight[i].course.waitingForApproveList, inflight[i].userId) = 0
     THEN /\ resp' = NoResponse
          /\ inflight' = [inflight EXCEPT ![i].pc = "valSaveCourse"]
     ELSE ValReply(i, <<200, "Success-02-0001">>)
  /\ UNCHANGED <<clock, traders, courses, users>>

\* course.waitingForApproveList.push(...); await course.save(): the push is
\* sent as a $push, which appends to the stored array.
ValSaveCourse(i) ==
  /\ inflight[i].pc = "valSaveCourse"
  /\ courses' = [courses EXCEPT ![inflight[i].courseId].waitingForApproveList =
       Append(@, inflight[i].userId)]
  /\ ValReply(i, <<200, "Success-02-0001">>)
  /\ UNCHANGED <<clock, traders, enrollments, users>>

\* During the session of c1, whose code has been issued: u1 holds a pending
\* registration, u2 none.
InitValidate ==
  /\ clock = SessionMoments[3]
  /\ traders = [u \in Users |->
       IF u = "u1"
       THEN [NewTrader(FALSE) EXCEPT
               !.trainings = << NewTraining("c1", CourseDay) >>]
       ELSE NewTrader(FALSE)]
  /\ \E code \in Codes :
       courses = [c \in {"c1"} |->
         [NewCourse(FALSE, CourseDay, 3, MaxSeats + 1) EXCEPT
            !.availableSeats = MaxSeats,
            !.registeredUsers = <<"u1">>,
            !.generatedCode = Some(code),
            !.generatedCodeTimestamp = Some(clock)]]
  /\ enrollments = << NewEnrollment("u1", "c1") >>
  /\ resp = NoResponse
  /\ inflight = [i \in Slots |-> Idle]
  /\ users = TraderAccounts

NextValidate ==
  \/ \E i \in Slots, u \in Users, code \in CodeInputs : ValFindCourse(i, u, code)
  \/ \E i \in Slots : ValFindEnrollment(i)
  \/ \E i \in Slots : ValSaveEnrollment(i)
  \/ \E i \in Slots : ValSaveCourse(i)

SpecValidate == InitValidate /\ [][NextValidate]_vars

----------------------------------------------------------------------------
(* POST /validateCode, one store operation at a time, while an admin acts  *)
(* on the same Enrollment.                                                 *)

NextValidateAction ==
  \/ \E i \in Slots, code \in CodeInputs : ValFindCourse(i, "u1", code)
  \/ \E i \in Slots : ValFindEnrollment(i)
  \/ \E i \in Slots : ValSaveEnrollment(i)
  \/ \E i \in Slots : ValSaveCourse(i)
  \/ \E a \in Admins, action \in {"approve", "reject"} :
       AdminAction(a, "u1", "c1", action)

SpecValidateAction == InitValidate /\ [][NextValidateAction]_vars

----------------------------------------------------------------------------
(* Code generation for courses whose schedule has been edited: PUT          *)
(* /courses/:courseId stores whatever fields it is sent.                    *)

\* The course as created, without a date, or without hours.
ScheduleChoices == {<<CourseDay, 3>>, <<NoDate, 3>>, <<CourseDay, 0>>}

InitGenerate ==
  /\ clock = SessionMoments[1]
  /\ traders = [u \in {"u1"} |-> NewTrader(FALSE)]
  /\ \E old \in {Unset} \cup {Some(code) : code \in Codes},
        sch \in ScheduleChoices :
       courses = [c \in Courses |->
         IF c = "c1"
         THEN [NewCourse(FALSE, CourseDay, 3, MaxSeats) EXCEPT
                 !.generatedCode = old,
                 !.generatedCodeTimestamp =
                    IF old = Unset THEN Unset ELSE Some(EarlierSession)]
         ELSE NewCourse(FALSE, sch[1], sch[2], MaxSeats)]
  /\ enrollments = << >>
  /\ resp = NoResponse
  /\ inflight = [i \in Slots |-> Idle]
  /\ users = TraderAccounts

NextGenerate ==
  \/ TickSession
  \/ \E c \in CourseIdInputs, code \in Codes : GenerateCode(c, code)

SpecGenerate == InitGenerate /\ [][NextGenerate]_vars

----------------------------------------------------------------------------
(* POST /login                                                             *)

\* Content-Type headers a request may carry; Missing is no header.
ContentTypes == {"application/json", "text/plain", Missing}

\* Emails and passwords that login requests carry.
EmailInputs == {"u1@example.com", "u2@example.com", Missing}
PasswordInputs == {"securePassword123", "pw2", Missing}

UserStatuses == {"Active", "Suspended", "Locked"}

\* bcrypt.compare(password, user.password)
Compare(password, hashed) == hashed = Hash(password)

\* The message that goes with each code; that of Error-02-0005 names the
\* account status.
LoginMessage(code, email) ==
  CASE code = "Error-01-0001" -> "Invalid Header."
    [] code = "Error-02-0001" -> "Missing required field."
    [] code = "Error-02-0003" -> "User not found."
    [] code = "Error-02-0004" -> "Invalid password. Please try again."
    [] code = "Error-02-0005" ->
         <<"Account is ", users[email].status, ". Please contact support.">>
    [] OTHER -> "Login successful"

\* LoginOutcome that looks at the account status before the password.
LoginOutcome_StatusFirst(contentType, email, password) ==
  IF contentType # "application/json" THEN <<401, "Error-01-0001">>
  ELSE IF email = Missing \/ password = Missing THEN <<400, "Error-02-0001">>
  ELSE IF email \notin DOMAIN users THEN <<404, "Error-02-0003">>
  ELSE IF users[email].status # "Active" THEN <<403, "Error-02-0005">>
  ELSE IF ~Compare(password, users[email].password)
       THEN <<401, "Error-02-0004">>
  ELSE <<200, "Success-01-0002">>

\* The early returns of the handler, in order; <<200, ...>> when none is taken.
LoginOutcome(contentType, email, password) ==
  IF contentType # "application/json" THEN <<401, "Error-01-0001">>
  ELSE IF email = Missing \/ password = Missing THEN <<400, "Error-02-0001">>
  ELSE IF email \notin DOMAIN users THEN <<404, "Error-02-0003">>
  ELSE IF ~Compare(password, users[email].password)
       THEN <<401, "Error-02-0004">>
  ELSE IF users[email].status # "Active" THEN <<403, "Error-02-0005">>
  ELSE <<200, "Success-01-0002">>

\* The whole handler: User.updateOne({_id}, {$set: {lastLogin: new Date()}})
\* once every check has passed.
Login(contentType, email, password) ==
  LET out == LoginOutcome(contentType, email, password) IN
  /\ resp' = [op |-> "login", userId |-> Missing, courseId |-> Missing,
              arg |-> Missing, status |-> out[1], code |-> out[2],
              message |-> LoginMessage(out[2], email), contentType |-> contentType,
              email |-> email, password |-> password]
  /\ IF out[1] = 200
     THEN users' = [users EXCEPT ![email].lastLogin = Some(clock)]
     ELSE UNCHANGED users
  /\ UNCHANGED <<clock, store, inflight>>

\* One or two registered traders; an admin may have set any account status
\* since (PUT /user sets whatever fields it is sent).
InitLogin ==
  /\ clock = Moments[1]
  /\ \E pop \in {{"u1"}, {"u1", "u2"}} :
       /\ traders = [u \in pop |-> NewTrader(FALSE)]
       /\ \E st \in [{EmailOf[u] : u \in pop} -> UserStatuses] :
            users = [m \in DOMAIN st |->
                       [TraderAccounts[m] EXCEPT !.status = st[m]]]
  /\ courses = [c \in {"c1"} |-> NewCourse(FALSE, CourseDay, 3, MaxSeats)]
  /\ enrollments = << >>
  /\ resp = NoResponse
  /\ inflight = [i \in Slots |-> Idle]

NextLogin ==
  \/ Tick
  \/ \E ct \in ContentTypes, m \in EmailInputs, pw \in PasswordInputs :
       Login(ct, m, pw)

SpecLogin == InitLogin /\ [][NextLogin]_vars

----------------------------------------------------------------------------
(* verifyToken in front of POST /registerCourse.                           *)

\* process.env.JWT_SECRET, and a key the server does not sign with.
JwtSecret == "JWT_SECRET"
JwtKeys == {JwtSecret, "forged"}

\* jwt.sign({userId, email, role}, key): tokens for every user and role.
Tokens == [userId : Users, role : {"user", "admin"}, key : JwtKeys]

\* Authorization headers: none (no scheme), another scheme, or Bearer with
\* a token.
AuthHeaders == [scheme : {Missing, "Basic", "Bearer"}, token : Tokens]

\* The early returns of verifyToken; <<200, payload>> when next() is called.
VerifyToken(authHeader) ==
  IF authHeader.scheme = Missing THEN <<401, "Error-01-0001">>
  ELSE IF authHeader.scheme # "Bearer" THEN <<401, "Error-01-0002">>
  ELSE IF authHeader.token.key # JwtSecret THEN <<401, "Error-01-0003">>
  ELSE <<200, [userId |-> authHeader.token.userId,
               role |-> authHeader.token.role]>>

\* The middleware, then the handler: the handler takes userId from the body
\* and does not read req.user.
RegisterCourseAs(authHeader, userId, courseId) ==
  LET auth == VerifyToken(authHeader)
      out  == IF auth[1] # 200 THEN auth ELSE RegisterResult(userId, courseId)
  IN
  /\ resp' = [op |-> "registerCourse", userId |-> userId,
              courseId |-> courseId, arg |-> Missing,
              status |-> out[1], code |-> out[2],
              caller |-> IF auth[1] = 200 THEN Some(auth[2]) ELSE Unset]
  /\ IF out[1] = 200
     THEN /\ enrollments' = Append(enrollments, NewEnrollment(userId, courseId))
          /\ traders' = [traders EXCEPT ![userId].trainings =
               Append(@, NewTraining(courseId, courses[courseId].courseDate))]
          /\ courses' = [courses EXCEPT
               ![courseId].availableSeats = @ - 1,
               ![courseId].registeredUsers = Append(@, userId)]
     ELSE UNCHANGED store
  /\ UNCHANGED <<clock, inflight, users>>

NextCaller ==
  \E h \in AuthHeaders, r \in RegisterRequests : RegisterCourseAs(h, r[1], r[2])

SpecCaller == InitRace /\ [][NextCaller]_vars

----------------------------------------------------------------------------
(* Vocabulary of the properties.                                           *)

\* The step handled a /registerCourse request that answered 200.
RegisterSucceeded == resp'.op = "registerCourse" /\ resp'.status = 200

\* The step handled an /action request with this action that answered 200.
ActionSucceeded(action) ==
  resp'.op = "action" /\ resp'.arg = action /\ resp'.status = 200

\* Allowed changes of an Enrollment's status, with the operation making them.
AllowedTransition(old, new) ==
  \/ old = "pending" /\ new = "validated" /\ resp'.op = "validateCode"
  \/ old = "validated" /\ new = "approved" /\ ActionSucceeded("approve")
  \/ old \in {"pending", "validated"} /\ new = "rejected"
       /\ ActionSucceeded("reject")

\* C1: every change of an Enrollment's status is pending -> validated (by
\* validateCode), validated -> approved (by approve) or pending/validated ->
\* rejected (by reject); approved is never entered directly from pending.
C1_OnlyAllowedTransitions ==
  [][\A i \in 1..Len(enrollments) :
       enrollments'[i].status # enrollments[i].status
         => AllowedTransition(enrollments[i].status, enrollments'[i].status)]_vars

\* C2: with requests one at a time, an approved or rejected Enrollment never
\* changes again; every later approve/reject on it is refused as already
\* processed and every later validateCode for it is refused, and each refusal
\* leaves Enrollments, Traders and Courses unchanged.
C2_TerminalIsFinal ==
  [][\A i \in 1..Len(enrollments) :
       enrollments[i].status \in {"approved", "rejected"} =>
         /\ enrollments'[i] = enrollments[i]
         /\ ( /\ resp'.op = "action"
              /\ resp'.userId = enrollments[i].userId
              /\ resp'.courseId = enrollments[i].courseId
              /\ resp'.arg \in {"approve", "reject"} )
            => /\ resp'.status = 400 /\ resp'.code = "Error-03-0013"
               /\ UNCHANGED store
         /\ ( /\ resp'.op = "validateCode"
              /\ resp'.userId = enrollments[i].userId
              /\ resp'.courseId = enrollments[i].courseId )
            => resp'.status # 200 /\ UNCHANGED store]_vars

\* An approve or reject was refused as already processed.
C2_Witness ==
  /\ resp.op = "action" /\ resp.code = "Error-03-0013"
  /\ \E i \in 1..Len(enrollments) :
       /\ enrollments[i].userId = resp.userId
       /\ enrollments[i].courseId = resp.courseId
       /\ enrollments[i].status \in {"approved", "rejected"}

\* C3: a successful registration creates exactly one pending Enrollment for
\* the pair, appends one training entry of the course with isCompleted = FALSE,
\* lowers availableSeats by exactly 1 and appends the user to registeredUsers.
C3_RegisterEffect ==
  [][RegisterSucceeded =>
       LET u == resp'.userId
           c == resp'.courseId
       IN  /\ Len(enrollments') = Len(enrollments) + 1
           /\ SubSeq(enrollments', 1, Len(enrollments)) = enrollments
           /\ enrollments'[Len(enrollments')].userId = u
           /\ enrollments'[Len(enrollments')].courseId = c
           /\ enrollments'[Len(enrollments')].status = "pending"
           /\ Cardinality({i \in 1..Len(enrollments') :
                 enrollments'[i].userId = u /\ enrollments'[i].courseId = c}) = 1
           /\ Len(traders'[u].trainings) = Len(traders[u].trainings) + 1
           /\ SubSeq(traders'[u].trainings, 1, Len(traders[u].trainings))
                = traders[u].trainings
           /\ traders'[u].trainings[Len(traders'[u].trainings)].courseId = c
           /\ traders'[u].trainings[Len(traders'[u].trainings)].isCompleted = FALSE
           /\ courses'[c].availableSeats = courses[c].availableSeats - 1
           /\ courses'[c].registeredUsers = Append(courses[c].registeredUsers, u)]_vars

\* A registration has just succeeded.
C3_Witness ==
  /\ resp.op = "registerCourse" /\ resp.status = 200
  /\ FindEnrollment(resp.userId, resp.courseId) # 0
  /\ courses[resp.courseId].availableSeats < courses[resp.courseId].maxSeats

\* C4: a successful reject removes the trader's training entry of the course
\* and raises the course's availableSeats by exactly 1.
C4_RejectRestoresSeat ==
  [][ActionSucceeded("reject") =>
       LET u == resp'.userId
           c == resp'.courseId
       IN  /\ FindTraining(traders'[u].trainings, c) = 0
           /\ courses'[c].availableSeats = courses[c].availableSeats + 1]_vars

\* Every check of /registerCourse that precedes the seat check passes.
ReachesSeatCheck(userId, courseId) ==
  /\ userId \in DOMAIN traders /\ ~traders[userId].isDeleted
  /\ courseId \in DOMAIN courses /\ ~courses[courseId].isDeleted
  /\ ~CourseDayIsPast(courses[courseId].courseDate, clock)

SeatsWithinBounds ==
  \A c \in DOMAIN courses :
    0 <= courses[c].availableSeats
      /\ courses[c].availableSeats <= courses[c].maxSeats

\* A /registerCourse request of some user names a course in the store that has
\* no seat left.
RegisterOnFullCourse ==
  /\ resp'.op = "registerCourse"
  /\ resp'.userId # Missing
  /\ resp'.courseId \in DOMAIN courses
  /\ courses[resp'.courseId].availableSeats = 0

\* C5 as stated: 0 <= availableSeats <= maxSeats always, and a registration
\* on a course with availableSeats = 0 is refused with the no-available-seats
\* error and changes no record.
C5_FullCourseRefusedNoSeats ==
  /\ []SeatsWithinBounds
  /\ [][RegisterOnFullCourse =>
          /\ resp'.status = 400 /\ resp'.code = "Error-02-0007"
          /\ UNCHANGED store]_vars

\* C5 amended: 0 <= availableSeats <= maxSeats always; a registration on a
\* course with availableSeats = 0 is refused and changes no record, and its
\* error is the no-available-seats error whenever the checks made before the
\* seat check pass.
C5_FullCourseRefused ==
  /\ []SeatsWithinBounds
  /\ [][RegisterOnFullCourse =>
          /\ resp'.status # 200
          /\ UNCHANGED store
          /\ ReachesSeatCheck(resp'.userId, resp'.courseId)
               => resp'.status = 400 /\ resp'.code = "Error-02-0007"]_vars

\* A registration was refused for lack of seats on a course that is full.
C5_Witness ==
  /\ resp.op = "registerCourse" /\ resp.code = "Error-02-0007"
  /\ courses[resp.courseId].availableSeats = 0
  /\ courses[resp.courseId].maxSeats > 0

\* C10: an approval never moves a trader's endDate backwards.
C10_EndDateNeverDecreases ==
  [][ActionSucceeded("approve") =>
       LET u == resp'.userId IN
       traders[u].endDate # Unset =>
         /\ traders'[u].endDate # Unset
         /\ traders'[u].endDate[1] >= traders[u].endDate[1]]_vars

\* A trader has been approved for a second course, at a later instant than
\* its first approval.
C10_Witness ==
  /\ resp.op = "action" /\ resp.arg = "approve" /\ resp.status = 200
  /\ \E i, j \in 1..Len(enrollments) :
       /\ i # j
       /\ enrollments[i].userId = resp.userId
       /\ enrollments[j].userId = resp.userId
       /\ enrollments[i].status = "approved"
       /\ enrollments[j].status = "approved"
       /\ enrollments[i].verifiedAt[1] < enrollments[j].verifiedAt[1]

\* Some Enrollment of the user is approved.
HasApproval(u) ==
  \E i \in 1..Len(enrollments) :
    enrollments[i].userId = u /\ enrollments[i].status = "approved"

\* C7: once an approve has succeeded for a trader, whatever its window was
\* before, startDate and endDate are set and endDate <= startDate + 2 years.
C7_EndWithinTwoYears ==
  \A u \in DOMAIN traders :
    HasApproval(u) =>
      /\ traders[u].startDate # Unset
      /\ traders[u].endDate # Unset
      /\ traders[u].endDate[1] <= AddYears(traders[u].startDate[1], 2, ServerOffset)

\* An approve on 2025-02-01 has left a trader whose window began on 2024-01-10
\* with endDate at the cap, 2026-01-10.
C7_Witness ==
  /\ resp.op = "action" /\ resp.arg = "approve" /\ resp.status = 200
  /\ traders[resp.userId].startDate = Some(At(2024, 1, 10, 10, 0, TzOffset))
  /\ traders[resp.userId].endDate = Some(At(2026, 1, 10, 10, 0, TzOffset))
  /\ clock = At(2025, 2, 1, 10, 0, TzOffset)

\* The instant whose calendar fields in the zone of offset off are those of t
\* with the year raised by n: same month, same day of month (the last day of
\* the month when the month is shorter), same time of day.
SameDayYearsLater(t, later, n, off) ==
  LET a == CivilFromDays(DayOf(t, off))
      b == CivilFromDays(DayOf(later, off))
  IN  /\ b[1] = a[1] + n /\ b[2] = a[2]
      /\ b[3] = (IF a[3] <= DaysInMonth(b[1], b[2]) THEN a[3]
                 ELSE DaysInMonth(b[1], b[2]))
      /\ (later + off) % MinutesPerDay = (t + off) % MinutesPerDay

\* C8: an approve of a trader whose startDate is unset sets startDate = now
\* and endDate = now + 2 years exactly; now = 2025-01-10 gives 2027-01-10.
C8_FirstApproval ==
  [][ActionSucceeded("approve") /\ traders[resp'.userId].startDate = Unset =>
       LET t == traders'[resp'.userId] IN
       /\ t.startDate = Some(clock)
       /\ t.endDate # Unset
       /\ SameDayYearsLater(clock, t.endDate[1], 2, ServerOffset)
       /\ clock = At(2025, 1, 10, 10, 0, TzOffset)
            => t.endDate = Some(At(2027, 1, 10, 10, 0, TzOffset))]_vars

\* The first approval of a trader was made on 2025-01-10.
C8_Witness ==
  /\ resp.op = "action" /\ resp.arg = "approve" /\ resp.status = 200
  /\ clock = At(2025, 1, 10, 10, 0, TzOffset)
  /\ traders[resp.userId].startDate = Some(clock)
  /\ traders[resp.userId].endDate = Some(At(2027, 1, 10, 10, 0, TzOffset))

\* now + 1 year when the window has lapsed, its end + 1 year otherwise.
Candidate(startDate, endDate, now) ==
  LET currentEnd == IF endDate = Unset THEN startDate[1] ELSE endDate[1] IN
  IF currentEnd < now THEN AddYears(now, 1, TzOffset)
  ELSE AddYears(currentEnd, 1, ServerOffset)

\* C9: an approve of a trader whose startDate is set leaves startDate
\* unchanged and sets endDate = min(candidate, startDate + 2 years).
C9_LaterApproval ==
  [][ActionSucceeded("approve") /\ traders[resp'.userId].startDate # Unset =>
       LET old == traders[resp'.userId]
           new == traders'[resp'.userId]
       IN  /\ new.startDate = old.startDate
           /\ new.endDate =
                Some(Min(Candidate(old.startDate, old.endDate, clock),
                         AddYears(old.startDate[1], 2, ServerOffset)))]_vars

\* A trader whose window began on 2025-01-10 was approved again on 2025-03-01
\* and its endDate is the candidate 2026-03-01, below the cap 2027-01-10.
C9_Witness ==
  /\ resp.op = "action" /\ resp.arg = "approve" /\ resp.status = 200
  /\ clock = At(2025, 3, 1, 10, 0, TzOffset)
  /\ traders[resp.userId].startDate = Some(At(2025, 1, 10, 10, 0, TzOffset))
  /\ traders[resp.userId].endDate = Some(At(2026, 3, 1, 10, 0, TzOffset))

\* The request in slot i has just been answered 200.
SlotSucceeded(i) ==
  inflight[i].pc # "idle" /\ inflight'[i].pc = "idle" /\ resp'.status = 200

\* C6: there is at most one Enrollment per (userId, courseId), also when two
\* registrations of the pair interleave, and a registration that arrives when
\* the pair has an Enrollment, whatever its status, does not succeed.
C6_OneEnrollmentPerPair ==
  /\ [](\A u \in Users, c \in Courses : Cardinality(EnrollmentsOf(u, c)) <= 1)
  /\ [][\A i \in Slots : SlotSucceeded(i) => ~inflight[i].existed]_vars

\* Two registrations of the pair both passed the findOne check; the insert of
\* the second one was refused by the unique index.
C6_Witness ==
  /\ resp.op = "registerCourse" /\ resp.status = 500
  /\ Cardinality(EnrollmentsOf(resp.userId, resp.courseId)) = 1

----------------------------------------------------------------------------
(* The attendance code.                                                    *)

\* The step handled a /validateCode request that got as far as the check of
\* the time: the code is that of a course the caller is registered for, with
\* a pending Enrollment.
ValidateReachesTimeCheck ==
  /\ resp'.op = "validateCode"
  /\ resp'.courseId \in DOMAIN courses
  /\ courses[resp'.courseId].generatedCode = Some(resp'.arg)
  /\ \E k \in 1..Len(courses[resp'.courseId].registeredUsers) :
       courses[resp'.courseId].registeredUsers[k] = resp'.userId
  /\ \E i \in 1..Len(enrollments) :
       /\ enrollments[i].userId = resp'.userId
       /\ enrollments[i].courseId = resp'.courseId
       /\ enrollments[i].status = "pending"

\* First and last instant at which a code of the course is accepted.
WindowStart(c) == courses[c].courseDate
WindowEnd(c) == courses[c].courseDate + (courses[c].hours + 2) * 60

\* C11: validateCode succeeds only inside [courseDate, courseDate + hours +
\* 2h], ends included; later it fails as expired, earlier as before the course
\* starts, and then Enrollments and Courses are unchanged.  With courseDate
\* 09:00 and 3 hours, 14:00 is accepted, 14:01 and 08:59 are refused.
C11_ValidateInsideWindow ==
  [][/\ (resp'.op = "validateCode" /\ resp'.status = 200) =>
          /\ WindowStart(resp'.courseId) <= clock
          /\ clock <= WindowEnd(resp'.courseId)
     /\ ValidateReachesTimeCheck =>
          LET c == resp'.courseId IN
          /\ (WindowStart(c) <= clock /\ clock <= WindowEnd(c))
               => resp'.status = 200
          /\ clock > WindowEnd(c)
               => /\ resp'.status = 400 /\ resp'.code = "Error-02-0004"
                  /\ UNCHANGED store
          /\ clock < WindowStart(c)
               => /\ resp'.status = 400 /\ resp'.code = "Error-02-0005"
                  /\ UNCHANGED store
          /\ (c = "c1" /\ clock = At(2024, 3, 10, 14, 0, TzOffset))
               => resp'.status = 200
          /\ (c = "c1" /\ clock \in {At(2024, 3, 10, 14, 1, TzOffset),
                                     At(2024, 3, 10, 8, 59, TzOffset)})
               => resp'.status # 200]_vars

\* A code of c1 was accepted at 14:00, the last instant of the window.
C11_Witness ==
  /\ resp.op = "validateCode" /\ resp.status = 200 /\ resp.courseId = "c1"
  /\ clock = At(2024, 3, 10, 14, 0, TzOffset)
  /\ \E i \in 1..Len(enrollments) :
       /\ enrollments[i].userId = resp.userId
       /\ enrollments[i].status = "validated"
       /\ enrollments[i].validatedAt = Some(clock)

\* C13: once a code has been issued inside the window of a course, every
\* later generateCode inside that window is refused and the code and its
\* timestamp keep their values.
C13_OneCodePerSession ==
  [][\A c \in DOMAIN courses :
       ( /\ resp'.op = "generateCode" /\ resp'.courseId = c
         /\ courses[c].generatedCode # Unset
         /\ courses[c].generatedCodeTimestamp # Unset
         /\ WindowStart(c) <= courses[c].generatedCodeTimestamp[1]
         /\ courses[c].generatedCodeTimestamp[1] <= WindowEnd(c)
         /\ WindowStart(c) <= clock /\ clock <= WindowEnd(c) )
       => /\ resp'.status # 200
          /\ courses'[c].generatedCode = courses[c].generatedCode
          /\ courses'[c].generatedCodeTimestamp
               = courses[c].generatedCodeTimestamp]_vars

\* Number of entries of the list that name the user.
Occurrences(list, userId) ==
  Cardinality({k \in 1..Len(list) : list[k] = userId})

\* C12: a successful validateCode requires that the caller is in
\* registeredUsers of the course holding the entered code; it leaves the
\* caller's Enrollment validated with validationCode = enteredCode and
\* validatedAt set, and the caller exactly once in waitingForApproveList; no
\* waitingForApproveList ever holds the same user twice.
C12_ValidatedOnce ==
  /\ [](\A c \in DOMAIN courses, u \in Users :
          Occurrences(courses[c].waitingForApproveList, u) <= 1)
  /\ [][(resp'.op = "validateCode" /\ resp'.status = 200) =>
          LET c == resp'.courseId
              u == resp'.userId
          IN  /\ courses[c].generatedCode = Some(resp'.arg)
              /\ Occurrences(courses[c].registeredUsers, u) >= 1
              /\ \E i \in 1..Len(enrollments') :
                   /\ enrollments'[i].userId = u
                   /\ enrollments'[i].courseId = c
                   /\ enrollments'[i].status = "validated"
                   /\ enrollments'[i].validationCode = Some(resp'.arg)
                   /\ enrollments'[i].validatedAt # Unset
              /\ Occurrences(courses'[c].waitingForApproveList, u) = 1]_vars

----------------------------------------------------------------------------
(* The admin's stamp.                                                      *)

\* C14: with requests one at a time, an Enrollment has verifiedBy and
\* verifiedAt set exactly when its status is approved or rejected: a
\* successful approve or reject stores both (verifiedAt = now), and a refused
\* /action request changes no Enrollment.
C14_StampIffTerminal ==
  /\ [](\A i \in 1..Len(enrollments) :
          /\ enrollments[i].verifiedBy # Unset
               <=> enrollments[i].status \in {"approved", "rejected"}
          /\ enrollments[i].verifiedAt # Unset
               <=> enrollments[i].status \in {"approved", "rejected"})
  /\ [][/\ (resp'.op = "action" /\ resp'.status # 200)
             => enrollments' = enrollments
        /\ (resp'.op = "action" /\ resp'.status = 200) =>
             \E i \in 1..Len(enrollments') :
               /\ enrollments'[i].userId = resp'.userId
               /\ enrollments'[i].courseId = resp'.courseId
               /\ enrollments'[i].verifiedBy \in {Some(a) : a \in Admins}
               /\ enrollments'[i].verifiedAt = Some(clock)]_vars

\* A reject has just stamped an Enrollment while another Enrollment, still
\* open, carries no stamp.
C14_Witness ==
  /\ resp.op = "action" /\ resp.arg = "reject" /\ resp.status = 200
  /\ \E i, j \in 1..Len(enrollments) :
       /\ enrollments[i].userId = resp.userId
       /\ enrollments[i].courseId = resp.courseId
       /\ enrollments[i].status = "rejected"
       /\ enrollments[i].verifiedAt = Some(clock)
       /\ enrollments[j].status \in {"pending", "validated"}
       /\ enrollments[j].verifiedBy = Unset

----------------------------------------------------------------------------
(* Interleaved registrations and failed writes.                            *)

\* The request in slot i has passed the seat check and is answered by this
\* step.
AnsweredAfterSeatCheck(i) ==
  /\ inflight[i].pc \in {"findEnrollment", "saveEnrollment", "saveTrader",
                         "saveCourse"}
  /\ inflight'[i].pc = "idle"

\* C15: a registration that has read availableSeats > 0 is never refused for
\* lack of seats afterwards, whatever other registrations have written in
\* between, and its course save writes availableSeats as the value it read
\* minus 1: two registrations that both read availableSeats = 1 both succeed.
C15_SeatCheckNotRepeated ==
  [][\A i \in Slots :
       AnsweredAfterSeatCheck(i) =>
         /\ resp'.code # "Error-02-0007"
         /\ (inflight[i].pc = "saveCourse" /\ resp'.status # 500) =>
              /\ resp'.status = 200
              /\ courses'[inflight[i].courseId].availableSeats
                   = inflight[i].availableSeats - 1
              /\ courses'[inflight[i].courseId].registeredUsers
                   = Append(courses[inflight[i].courseId].registeredUsers,
                            inflight[i].userId)]_vars

\* A course created with one seat holds two registrations, of both traders,
\* and the second of them has just been answered 200.
C15_Witness ==
  /\ resp.op = "registerCourse" /\ resp.status = 200
  /\ courses["c1"].maxSeats = 1
  /\ courses["c1"].availableSeats = 0
  /\ courses["c1"].registeredUsers \in {<<"u1", "u2">>, <<"u2", "u1">>}
  /\ \A u \in Users :
       /\ FindEnrollment(u, "c1") # 0
       /\ enrollments[FindEnrollment(u, "c1")].status = "pending"
       /\ FindTraining(traders[u].trainings, "c1") # 0

\* The request in slot i has saved its Enrollment and this step answers it
\* with an error: a later write has failed.
FailsAfterEnrollment(i) ==
  /\ inflight[i].pc \in {"saveTrader", "saveCourse"}
  /\ inflight'[i].pc = "idle"
  /\ resp'.status # 200

\* C18: when the trader save or the course save of a registration fails, the
\* request ends with the internal error and the Enrollment it saved stays
\* stored as pending, while the user is missing from registeredUsers (and, at
\* the trader save, the training entry is missing too).
C18_EnrollmentNotRolledBack ==
  [][\A i \in Slots :
       FailsAfterEnrollment(i) =>
         LET u == inflight[i].userId
             c == inflight[i].courseId
         IN  /\ resp'.status = 500 /\ resp'.code = "Error-02-0009"
             /\ UNCHANGED store
             /\ \E k \in 1..Len(enrollments') :
                  /\ enrollments'[k].userId = u
                  /\ enrollments'[k].courseId = c
                  /\ enrollments'[k].status = "pending"
             /\ Occurrences(courses'[c].registeredUsers, u) = 0
             /\ inflight[i].pc = "saveTrader"
                  => FindTraining(traders'[u].trainings, c) = 0]_vars

\* No request is in progress, a registration has been answered 500, and its
\* pending Enrollment and its training entry are stored although the course
\* does not list the user.
C18_Witness ==
  /\ resp.op = "registerCourse" /\ resp.status = 500
  /\ \A i \in Slots : inflight[i].pc = "idle"
  /\ FindEnrollment(resp.userId, resp.courseId) # 0
  /\ enrollments[FindEnrollment(resp.userId, resp.courseId)].status = "pending"
  /\ FindTraining(traders[resp.userId].trainings, resp.courseId) # 0
  /\ Occurrences(courses[resp.courseId].registeredUsers, resp.userId) = 0

\* C19: when the course save of a registration fails after its trader save
\* has succeeded, the request ends with the trader's trainings equal to
\* their value before the request.
C19_TrainingPoppedOnCourseFailure ==
  [][\A i \in Slots :
       ( /\ inflight[i].pc = "saveCourse"
         /\ inflight'[i].pc = "idle"
         /\ resp'.status # 200 )
       => traders'[inflight[i].userId].trainings = inflight[i].trainings]_vars

----------------------------------------------------------------------------
(* Interleaved admin actions.                                              *)

\* C16: a request that has passed the status check writes the status of its
\* action whatever the stored status is by then, so two interleaved /action
\* requests on one open Enrollment both pass the check and both succeed.
C16_StatusNotRechecked ==
  [][\A i \in Slots :
       (inflight[i].pc = "actSaveEnrollment" /\ inflight'[i] # inflight[i]) =>
         LET e == FindEnrollment(inflight[i].userId, inflight[i].courseId) IN
         /\ inflight'[i].pc \in {"actSaveTrader", "actSaveCourse"}
         /\ enrollments'[e].status =
              (IF inflight[i].action = "approve" THEN "approved"
               ELSE "rejected")]_vars

\* An approve and a reject of the same Enrollment have both been answered 200.
C16_Witness ==
  /\ \A i \in Slots :
       /\ inflight[i].pc = "done" /\ inflight[i].status = 200
       /\ inflight[i].userId = "u1" /\ inflight[i].courseId = "c1"
  /\ {inflight[i].action : i \in Slots} = {"approve", "reject"}

----------------------------------------------------------------------------
(* The preconditions of a registration, in the reference timezone.         *)

\* A training entry of this course, or of a course on the same calendar day
\* in the timezone with offset off.
HoldsCourseOrDay(trainings, courseId, courseDate, off) ==
  \E i \in 1..Len(trainings) :
    \/ trainings[i].courseId = courseId
    \/ DayOf(trainings[i].date, off) = DayOf(courseDate, off)

\* The error of the first precondition that fails, <<200, ...>> if none does.
FirstFailure(userId, courseId, off) ==
  IF userId \notin DOMAIN traders THEN <<404, "Error-02-0002">>
  ELSE IF traders[userId].isDeleted THEN <<400, "Error-02-0003">>
  ELSE IF courseId \notin DOMAIN courses THEN <<404, "Error-02-0004">>
  ELSE IF courses[courseId].isDeleted THEN <<400, "Error-02-0005">>
  ELSE IF DayOf(courses[courseId].courseDate, TzOffset) < DayOf(clock, TzOffset)
       THEN <<400, "Error-02-0006">>
  ELSE IF ~(courses[courseId].availableSeats > 0) THEN <<400, "Error-02-0007">>
  ELSE IF EnrollmentsOf(userId, courseId) # {} THEN <<400, "Error-02-0011">>
  ELSE IF HoldsCourseOrDay(traders[userId].trainings, courseId,
                           courses[courseId].courseDate, off)
       THEN <<400, "Error-02-0008">>
  ELSE <<200, "Success-02-0001">>

\* The answer to a well-formed registration is that of the first failing
\* precondition, days taken in the timezone with offset off, and a refusal
\* changes no record.
AnswersFirstFailure(off) ==
  (resp'.op = "registerCourse" /\ resp'.userId # Missing
     /\ resp'.courseId # Missing) =>
    /\ <<resp'.status, resp'.code>> =
         FirstFailure(resp'.userId, resp'.courseId, off)
    /\ resp'.status # 200 => store' = store

\* C17: RegisterForCourse answers with the error of the first precondition
\* that fails, in the order trader exists, trader not deleted, course exists,
\* course not deleted, course day not before today, seats left, no Enrollment
\* of the pair, no training of this course or of the same calendar day; a
\* refusal leaves Enrollments, the Trader and the Course unchanged.
C17_FirstFailingPrecondition ==
  [][AnswersFirstFailure(TzOffset)]_vars

\* C20: when requests run one at a time, no trader's trainings hold two
\* entries of the same course, nor two entries on the same calendar day.
C20_OneTrainingPerCourseAndDay ==
  \A u \in DOMAIN traders :
    \A i, j \in 1..Len(traders[u].trainings) :
      i < j =>
        /\ traders[u].trainings[i].courseId # traders[u].trainings[j].courseId
        /\ DayOf(traders[u].trainings[i].date, TzOffset)
             # DayOf(traders[u].trainings[j].date, TzOffset)

----------------------------------------------------------------------------
(* Trainings, durationDisplay and the Enrollment status.                   *)

\* The statuses of the Enrollments of (userId, courseId).
StatusesOf(userId, courseId) ==
  {enrollments[e].status : e \in EnrollmentsOf(userId, courseId)}

\* C21: with requests one at a time, a trader holds a training of a course
\* exactly when the Enrollment of the pair is pending, validated or approved,
\* the training is completed exactly when the Enrollment is approved, and no
\* /action is refused for a missing training entry (Error-03-0011).
C21_TrainingFollowsEnrollment ==
  /\ \A u \in DOMAIN traders : \A c \in Courses :
       LET ti == FindTraining(traders[u].trainings, c) IN
       /\ ti # 0 <=>
            StatusesOf(u, c) \cap {"pending", "validated", "approved"} # {}
       /\ ti # 0 =>
            (traders[u].trainings[ti].isCompleted <=>
               "approved" \in StatusesOf(u, c))
  /\ ~(resp.op = "action" /\ resp.code = "Error-03-0011")

\* One Enrollment has been approved, its training completed, and another has
\* just been rejected, its training removed.
C21_Witness ==
  /\ resp.op = "action" /\ resp.arg = "reject" /\ resp.status = 200
  /\ FindTraining(traders[resp.userId].trainings, resp.courseId) = 0
  /\ StatusesOf(resp.userId, resp.courseId) = {"rejected"}
  /\ \E u \in DOMAIN traders : \E c \in Courses :
       /\ "approved" \in StatusesOf(u, c)
       /\ FindTraining(traders[u].trainings, c) # 0
       /\ traders[u].trainings[FindTraining(traders[u].trainings, c)].isCompleted

\* C22: a trader with an approved Enrollment has durationDisplay {2, 0, 0},
\* whatever its window and the time of the approval, a further approval leaves
\* it so, and a trader never approved has {0, 0, 0}.
C22_DurationDisplayFixed ==
  \A u \in DOMAIN traders :
    traders[u].durationDisplay =
      (IF \E c \in Courses : "approved" \in StatusesOf(u, c)
       THEN <<2, 0, 0>> ELSE <<0, 0, 0>>)

\* A second approval of a trader whose window had been set before.
C22_Witness ==
  /\ resp.op = "action" /\ resp.arg = "approve" /\ resp.status = 200
  /\ \A c \in Courses : StatusesOf("u1", c) = {"approved"}
  /\ traders["u1"].startDate # Unset
  /\ traders["u1"].startDate[1] < clock
  /\ traders["u1"].durationDisplay = <<2, 0, 0>>

----------------------------------------------------------------------------
(* Login.                                                                  *)

\* A login request with the JSON content type and both fields sent.
WellFormedLogin(r) ==
  /\ r.op = "login" /\ r.contentType = "application/json"
  /\ r.email # Missing /\ r.password # Missing

\* The answer the claim gives: user unknown, then wrong password, then
\* account not Active, else success.
ExpectedLogin(email, password) ==
  IF email \notin DOMAIN users THEN 404
  ELSE IF users[email].password # Hash(password) THEN 401
  ELSE IF users[email].status # "Active" THEN 403
  ELSE 200

\* C23: a JSON login of an existing Active user with the right password is
\* answered 200 "Login successful" and sets lastLogin to now; it is refused
\* with 404 for an unknown user, else 401 for a wrong password, else 403 for
\* an account that is not Active, and a refusal leaves every lastLogin as it
\* was.
C23_LoginOutcome ==
  [][WellFormedLogin(resp') =>
       /\ resp'.status = ExpectedLogin(resp'.email, resp'.password)
       /\ resp'.status = 200 =>
            /\ resp'.message = "Login successful"
            /\ users' = [users EXCEPT ![resp'.email].lastLogin = Some(clock)]
       /\ resp'.status # 200 => users' = users]_vars

\* A second successful login, later than the first, has moved lastLogin.
C23_Witness ==
  /\ WellFormedLogin(resp) /\ resp.status = 200
  /\ resp.message = "Login successful"
  /\ users[resp.email].lastLogin = Some(clock)
  /\ clock > Moments[1]
  /\ \E m \in DOMAIN users :
       /\ users[m].status # "Active" /\ users[m].lastLogin = Unset

----------------------------------------------------------------------------
(* When a code may be generated.                                           *)

\* now lies in [courseDate, courseDate + hours + 2h] of a course that has
\* both a date and hours.
InGenerationWindow(c) ==
  /\ courses[c].courseDate # NoDate /\ courses[c].hours # 0
  /\ WindowStart(c) <= clock /\ clock <= WindowEnd(c)

\* C24: generateCode stores a new code and timestamp only when now lies in
\* the closed window of the course; before courseDate, after the expiration
\* instant, or for a course without courseDate or hours it is refused and the
\* code and its timestamp stay as they were.
C24_GenerateOnlyInsideWindow ==
  [][\A c \in DOMAIN courses :
       /\ ( \/ courses'[c].generatedCode # courses[c].generatedCode
            \/ courses'[c].generatedCodeTimestamp
                 # courses[c].generatedCodeTimestamp )
          => /\ resp'.op = "generateCode" /\ resp'.courseId = c
             /\ resp'.status = 200
             /\ InGenerationWindow(c)
             /\ courses'[c].generatedCode = Some(resp'.arg)
             /\ courses'[c].generatedCodeTimestamp = Some(clock)
       /\ (resp'.op = "generateCode" /\ resp'.courseId = c
             /\ ~InGenerationWindow(c))
          => /\ resp'.status # 200
             /\ courses'[c] = courses[c]]_vars

\* A code has been stored at the last instant of the window, the other course
\* has lost its date or its hours and holds no code.
C24_Witness ==
  /\ resp.op = "generateCode" /\ resp.courseId = "c1" /\ resp.status = 200
  /\ clock = WindowEnd("c1")
  /\ courses["c1"].generatedCodeTimestamp = Some(clock)
  /\ LacksSchedule(courses["c2"])
  /\ courses["c2"].generatedCode = Unset

----------------------------------------------------------------------------
(* The window once an approval has set it.                                 *)

\* The window of trader u is set and spans two years.
TwoYearWindow(u) ==
  /\ traders[u].startDate # Unset
  /\ traders[u].endDate = Some(AddYears(traders[u].startDate[1], 2, ServerOffset))

\* C25: once an approval has set a trader's window, endDate = startDate + 2
\* years in every later state: startDate never changes again and no later
\* approval changes endDate, be the certification active or lapsed.
C25_WindowFixedOnceSet ==
  /\ [](\A u \in DOMAIN traders :
          traders[u].startDate # Unset \/ traders[u].endDate # Unset
            => TwoYearWindow(u))
  /\ [][\A u \in DOMAIN traders :
          traders[u].startDate # Unset
            => /\ traders'[u].startDate = traders[u].startDate
               /\ traders'[u].endDate = traders[u].endDate]_vars

\* A second approval, made after endDate has passed, has left endDate in the
\* past.
C25_Witness ==
  /\ resp.op = "action" /\ resp.arg = "approve" /\ resp.status = 200
  /\ TwoYearWindow(resp.userId)
  /\ traders[resp.userId].endDate[1] < clock
  /\ traders[resp.userId].startDate[1] < clock
  /\ \A c \in DOMAIN courses : StatusesOf(resp.userId, c) = {"approved"}
  /\ Cardinality(DOMAIN courses) = 2

----------------------------------------------------------------------------
(* Validation interleaved with an admin action.                            *)

\* C26: an Enrollment stored as approved or rejected is never stored with
\* another status afterwards, also when a validateCode that read it as
\* pending runs around an /action on it.
C26_TerminalStaysStored ==
  [][\A e \in 1..Len(enrollments) :
       enrollments[e].status \in {"approved", "rejected"}
         => enrollments'[e].status = enrollments[e].status]_vars

----------------------------------------------------------------------------
(* Codes shared by two courses.                                            *)

\* userId may validate course c with enteredCode now: registered, Enrollment
\* pending, the code is that of c and now lies in the window of c.
MayValidate(userId, c, enteredCode) ==
  /\ courses[c].generatedCode = Some(enteredCode)
  /\ FindUser(courses[c].registeredUsers, userId) # 0
  /\ StatusesOf(userId, c) = {"pending"}
  /\ WindowStart(c) <= clock /\ clock <= WindowEnd(c)

\* The validation of userId for c succeeds in this step.
ValidatesFor(userId, c) ==
  /\ resp'.status = 200
  /\ \A e \in EnrollmentsOf(userId, c) : enrollments'[e].status = "validated"

\* C27: a registered user with a pending Enrollment who submits the course's
\* code inside its window is always validated, also when another course holds
\* the same code.
C27_OwnCodeAlwaysValidates ==
  [][\A c \in DOMAIN courses :
       (resp'.op = "validateCode"
          /\ MayValidate(resp'.userId, c, resp'.arg))
         => ValidatesFor(resp'.userId, c)]_vars

----------------------------------------------------------------------------
(* The waiting list and the Enrollment status.                             *)

\* C28: with requests one at a time, a user is in a course's
\* waitingForApproveList exactly when the Enrollment of the pair is validated:
\* validation adds the user, approve and reject remove the user.
C28_WaitingIffValidated ==
  \A c \in DOMAIN courses : \A u \in Users :
    FindUser(courses[c].waitingForApproveList, u) # 0
      <=> "validated" \in StatusesOf(u, c)

\* A validated Enrollment has just been approved or rejected and its user has
\* left the waiting list, while another user is still waiting.
C28_Witness ==
  /\ resp.op = "action" /\ resp.status = 200
  /\ \E e \in EnrollmentsOf(resp.userId, resp.courseId) :
       /\ enrollments[e].status \in {"approved", "rejected"}
       /\ enrollments[e].validatedAt # Unset
  /\ FindUser(courses[resp.courseId].waitingForApproveList, resp.userId) = 0
  /\ \E u \in Users :
       /\ u # resp.userId
       /\ FindUser(courses[resp.courseId].waitingForApproveList, u) # 0
       /\ StatusesOf(u, resp.courseId) = {"validated"}

----------------------------------------------------------------------------
(* Approvals whose later saves fail.                                       *)

\* No /action request on the pair is between its first and its last step.
NoActionInProgress(userId, courseId) ==
  \A i \in Slots :
    inflight[i].pc \in {"idle", "done"}
      \/ inflight[i].userId # userId \/ inflight[i].courseId # courseId

\* C29: whenever an Enrollment is stored as approved and no request on it is
\* in progress, the trader's training of the course is completed and the
\* trader's startDate and endDate are set, also after a save of the approve
\* request has failed.
C29_ApprovedMeansCompleted ==
  \A e \in 1..Len(enrollments) :
    LET u == enrollments[e].userId
        c == enrollments[e].courseId
        ti == FindTraining(traders[u].trainings, c)
    IN
    (enrollments[e].status = "approved" /\ NoActionInProgress(u, c))
      => /\ ti # 0
         /\ traders[u].trainings[ti].isCompleted
         /\ traders[u].startDate # Unset
         /\ traders[u].endDate # Unset

----------------------------------------------------------------------------
(* Who may register whom.                                                  *)

\* C30: a registration that creates an Enrollment (reserves a seat, appends
\* a training) for a user id is made by a caller with the admin role or by
\* that user.
C30_RegisterOnlyOwnId ==
  [][(resp'.op = "registerCourse" /\ store' # store) =>
       /\ resp'.caller # Unset
       /\ \/ resp'.caller[1].role = "admin"
          \/ resp'.caller[1].userId = resp'.userId]_vars

====
